---------------------------- MODULE Spec2Model ----------------------------
(***************************************************************************)
(* Model of the layered configuration engine of optimize-go (package       *)
(* config): the named-collection merge (merge.go) and default resolution   *)
(* (the default loader).                                                   *)
(*                                                                         *)
(* Go values are modelled as follows.                                      *)
(*   - a struct is a record with the Go field names;                       *)
(*   - a slice is a sequence;                                              *)
(*   - a pointer that may be nil is a sequence of length 0 (nil) or 1;     *)
(*   - a function whose result depends on Go's map iteration order, which  *)
(*     the language leaves unspecified, is an operator that returns the    *)
(*     SET of results the program can produce.                             *)
(***************************************************************************)
EXTENDS Naturals, Sequences, FiniteSets, TLC

VARIABLES
    cfg,    \* the Config being worked on (OptimizeConfig.data)
    pre,    \* cfg as it was before the last operation
    op,     \* name of the last operation ("init" before any)
    arg,    \* input of the last operation
    err,    \* error returned by the last operation ("" for nil)
    pc      \* position of the running default loader

vars == <<cfg, pre, op, arg, err, pc>>

(***************************************************************************)
(* Bounds of the model.                                                    *)
(***************************************************************************)
MaxLen == 2     \* longest named collection drawn as an input
MaxEnv == 2     \* longest controller env sequence drawn as an input

(***************************************************************************)
(* General helpers.                                                        *)
(***************************************************************************)
Range(s) == {s[i] : i \in DOMAIN s}

SeqsUpTo(S, n) == UNION {[1..k -> S] : k \in 0..n}

\* every order in which the keys of a Go map can be visited by "range"
MapOrders(K) ==
    {p \in [1..Cardinality(K) -> K] : \A i, j \in 1..Cardinality(K) : p[i] = p[j] => i = j}

Restrict(f, D) == [x \in D |-> f[x]]

NamesOf(l) == {l[i].Name : i \in DOMAIN l}

\* index of the first / last entry of l named n (0 if there is none)
FirstIndex(l, n) ==
    IF n \in NamesOf(l) THEN CHOOSE i \in DOMAIN l : l[i].Name = n /\ \A j \in 1..(i-1) : l[j].Name # n
    ELSE 0

LastIndex(l, n) ==
    IF n \in NamesOf(l) THEN CHOOSE i \in DOMAIN l : l[i].Name = n /\ \A j \in (i+1)..Len(l) : l[j].Name # n
    ELSE 0

(***************************************************************************)
(* Types (zero values of the Go structs).                                  *)
(***************************************************************************)
EmptyAPIServer ==
    [ApplicationsEndpoint |-> "", ExperimentsEndpoint |-> "", AccountsEndpoint |-> "",
     PerformanceTokenEndpoint |-> "", RegistryRegistrationEndpoint |-> ""]

EmptyAuthorizationServer ==
    [Issuer |-> "", AuthorizationEndpoint |-> "", TokenEndpoint |-> "",
     RevocationEndpoint |-> "", RegistrationEndpoint |-> "",
     DeviceAuthorizationEndpoint |-> "", JSONWebKeySetURI |-> ""]

EmptyApplicationServer == [BaseURL |-> "", AuthSuccessEndpoint |-> ""]

EmptyServer ==
    [Identifier |-> "", API |-> EmptyAPIServer,
     Authorization |-> EmptyAuthorizationServer, Application |-> EmptyApplicationServer]

EmptyCredential == [TokenCredential |-> <<>>, ClientCredential |-> <<>>]

EmptyAuthorization == [Credential |-> EmptyCredential]

EmptyCluster ==
    [KubeConfig |-> "", Context |-> "", Namespace |-> "", Bin |-> "", Controller |-> ""]

EmptyController ==
    [DeploymentName |-> "", Namespace |-> "", RegistrationClientURI |-> "",
     RegistrationAccessToken |-> "", Env |-> <<>>]

EmptyContext == [Server |-> "", Authorization |-> "", Cluster |-> ""]

EmptyConfig ==
    [Servers |-> <<>>, Authorizations |-> <<>>, Clusters |-> <<>>, Controllers |-> <<>>,
     Contexts |-> <<>>, CurrentContext |-> "", Environment |-> ""]

NamedServer(n, s) == [Name |-> n, Server |-> s]
NamedAuthorization(n, a) == [Name |-> n, Authorization |-> a]
NamedCluster(n, c) == [Name |-> n, Cluster |-> c]
NamedController(n, c) == [Name |-> n, Controller |-> c]
NamedContext(n, c) == [Name |-> n, Context |-> c]

(***************************************************************************)
(* merge.go: merge types and elements.                                     *)
(***************************************************************************)
mergeString(s1, s2) == IF s2 # "" THEN s2 ELSE s1

mergeServer(s1, s2) ==
    [s1 EXCEPT
        !.Identifier = mergeString(@, s2.Identifier),
        !.API.AccountsEndpoint = mergeString(@, s2.API.AccountsEndpoint),
        !.API.ExperimentsEndpoint = mergeString(@, s2.API.ExperimentsEndpoint),
        !.Authorization.Issuer = mergeString(@, s2.Authorization.Issuer),
        !.Authorization.AuthorizationEndpoint = mergeString(@, s2.Authorization.AuthorizationEndpoint),
        !.Authorization.TokenEndpoint = mergeString(@, s2.Authorization.TokenEndpoint),
        !.Authorization.RevocationEndpoint = mergeString(@, s2.Authorization.RevocationEndpoint),
        !.Authorization.RegistrationEndpoint = mergeString(@, s2.Authorization.RegistrationEndpoint),
        !.Authorization.DeviceAuthorizationEndpoint =
            mergeString(@, s2.Authorization.DeviceAuthorizationEndpoint),
        !.Authorization.JSONWebKeySetURI = mergeString(@, s2.Authorization.JSONWebKeySetURI),
        !.Application.BaseURL = mergeString(@, s2.Application.BaseURL),
        !.Application.AuthSuccessEndpoint = mergeString(@, s2.Application.AuthSuccessEndpoint)]

hasToken(c) == c.TokenCredential # <<>> /\ c.TokenCredential[1].AccessToken # ""
hasClient(c) == c.ClientCredential # <<>> /\ c.ClientCredential[1].ClientID # ""

mergeAuthorizationNoClear(a1, a2) ==
    LET t == IF hasToken(a2.Credential)
             THEN [a1 EXCEPT !.Credential.TokenCredential = a2.Credential.TokenCredential]
             ELSE a1
    IN  IF hasClient(a2.Credential)
        THEN [t EXCEPT !.Credential.ClientCredential = a2.Credential.ClientCredential]
        ELSE t

mergeAuthorization(a1, a2) ==
    LET t == IF hasToken(a2.Credential)
             THEN [a1 EXCEPT !.Credential =
                      [ClientCredential |-> <<>>, TokenCredential |-> a2.Credential.TokenCredential]]
             ELSE a1
    IN  IF hasClient(a2.Credential)
        THEN [t EXCEPT !.Credential =
                 [TokenCredential |-> <<>>, ClientCredential |-> a2.Credential.ClientCredential]]
        ELSE t

mergeCluster(c1, c2) ==
    [c1 EXCEPT
        !.KubeConfig = mergeString(@, c2.KubeConfig),
        !.Context = mergeString(@, c2.Context),
        !.Namespace = mergeString(@, c2.Namespace),
        !.Bin = mergeString(@, c2.Bin),
        !.Controller = mergeString(@, c2.Controller)]

\* idx of mergeController: variable name -> value, a later entry replacing an earlier one
envIndex(env) == [n \in NamesOf(env) |-> env[LastIndex(env, n)].Value]

\* the loop over c1.Env from position i on: a base variable takes the non-empty
\* value idx holds for its name, and the name is then deleted from idx
RECURSIVE envLoop(_, _, _)
envLoop(env, idx, i) ==
    IF i > Len(env) THEN [Env |-> env, idx |-> idx]
    ELSE LET n == env[i].Name
             v == IF n \in DOMAIN idx THEN idx[n] ELSE ""
         IN  IF v # ""
             THEN envLoop([env EXCEPT ![i].Value = v], Restrict(idx, DOMAIN idx \ {n}), i + 1)
             ELSE envLoop(env, idx, i + 1)

\* the set of results: what is left in idx is appended in map iteration order
mergeController(c1, c2) ==
    LET r == envLoop(c1.Env, envIndex(c2.Env), 1)
    IN  {[c1 EXCEPT
            !.Namespace = mergeString(@, c2.Namespace),
            !.RegistrationClientURI = mergeString(@, c2.RegistrationClientURI),
            !.RegistrationAccessToken = mergeString(@, c2.RegistrationAccessToken),
            !.Env = r.Env \o [k \in 1..Len(p) |-> [Name |-> p[k], Value |-> r.idx[p[k]]]]]
         : p \in MapOrders(DOMAIN r.idx)}

mergeContext(c1, c2) ==
    [c1 EXCEPT
        !.Server = mergeString(@, c2.Server),
        !.Authorization = mergeString(@, c2.Authorization),
        !.Cluster = mergeString(@, c2.Cluster)]

(***************************************************************************)
(* merge.go: merge lists.  The five list functions have one shape; fld is  *)
(* the body field of the named entry ("Server", "Authorization", ...).     *)
(***************************************************************************)
\* the results of merging body b2 into body b1
mergeElement(fld, b1, b2) ==
    CASE fld = "Server" -> {mergeServer(b1, b2)}
      [] fld = "Authorization" -> {mergeAuthorization(b1, b2)}
      [] fld = "Cluster" -> {mergeCluster(b1, b2)}
      [] fld = "Controller" -> mergeController(b1, b2)
      [] fld = "Context" -> {mergeContext(b1, b2)}

\* idx of the list functions: name -> body, a later entry replacing an earlier one
listIndex(fld, l) == [n \in NamesOf(l) |-> l[LastIndex(l, n)][fld]]

\* the loop over the base list from position i on: an entry whose name is in idx
\* is merged with the body idx holds, and the name is then deleted from idx
RECURSIVE listLoop(_, _, _, _)
listLoop(fld, l, idx, i) ==
    IF i > Len(l) THEN {[list |-> l, idx |-> idx]}
    ELSE LET n == l[i].Name
         IN  IF n \in DOMAIN idx
             THEN UNION {listLoop(fld, [l EXCEPT ![i][fld] = b], Restrict(idx, DOMAIN idx \ {n}), i + 1)
                         : b \in mergeElement(fld, l[i][fld], idx[n])}
             ELSE listLoop(fld, l, idx, i + 1)

\* the named entry the list functions append for key k and body v
namedEntry(fld, k, v) ==
    CASE fld = "Server" -> NamedServer(k, v)
      [] fld = "Authorization" -> NamedAuthorization(k, v)
      [] fld = "Cluster" -> NamedCluster(k, v)
      [] fld = "Controller" -> NamedController(k, v)
      [] fld = "Context" -> NamedContext(k, v)

listAppendNothing(fld, r) == {r.list}

\* what is left in idx is appended in map iteration order
listAppend(fld, r) ==
    {r.list \o [k \in 1..Len(p) |-> namedEntry(fld, p[k], r.idx[p[k]])]
     : p \in MapOrders(DOMAIN r.idx)}

mergeList(fld, l, overlay) ==
    UNION {listAppend(fld, r) : r \in listLoop(fld, l, listIndex(fld, overlay), 1)}

mergeServers(data, servers) ==
    {[data EXCEPT !.Servers = l] : l \in mergeList("Server", data.Servers, servers)}

mergeAuthorizations(data, authorizations) ==
    {[data EXCEPT !.Authorizations = l]
     : l \in mergeList("Authorization", data.Authorizations, authorizations)}

mergeClusters(data, clusters) ==
    {[data EXCEPT !.Clusters = l] : l \in mergeList("Cluster", data.Clusters, clusters)}

mergeControllers(data, controllers) ==
    {[data EXCEPT !.Controllers = l]
     : l \in mergeList("Controller", data.Controllers, controllers)}

mergeContexts(data, contexts) ==
    {[data EXCEPT !.Contexts = l] : l \in mergeList("Context", data.Contexts, contexts)}

\* the set of configs mergeConfig can leave in c1
mergeConfig(c1, c2) ==
    LET s1 == mergeServers(c1, c2.Servers)
        s2 == UNION {mergeAuthorizations(c, c2.Authorizations) : c \in s1}
        s3 == UNION {mergeClusters(c, c2.Clusters) : c \in s2}
        s4 == UNION {mergeControllers(c, c2.Controllers) : c \in s3}
        s5 == UNION {mergeContexts(c, c2.Contexts) : c \in s4}
    IN  {[c EXCEPT !.CurrentContext = mergeString(@, c2.CurrentContext),
                   !.Environment = mergeString(@, c2.Environment)] : c \in s5}

(***************************************************************************)
(* merge.go: find elements.  A result is the index of the entry, 0 for nil.*)
(***************************************************************************)
findServer(l, name) == FirstIndex(l, name)
findAuthorization(l, name) == FirstIndex(l, name)
findCluster(l, name) == FirstIndex(l, name)
findController(l, name) == FirstIndex(l, name)
findContext(l, name) == FirstIndex(l, name)

(***************************************************************************)
(* Execution environments.  The constants and OptimizeConfig.Environment   *)
(* are declared outside the files at hand; an empty stored environment is  *)
(* the production default.                                                 *)
(***************************************************************************)
environmentProduction == "production"
environmentStaging == "staging"
environmentDevelopment == "development"

Environment(data) ==
    IF data.Environment = "" THEN environmentProduction ELSE data.Environment

(***************************************************************************)
(* URLs.  discovery.IssuerURL, discovery.WellKnownURI, url.Parse and       *)
(* path.Join work on the text of a URL; the model knows the URLs below.    *)
(***************************************************************************)
InvalidURL == "%zz"

\* the URLs without a trailing slash that the model knows
URLBases ==
    {"https://api.stormforge.io", "https://auth.stormforge.io",
     "https://api.stormforge.dev", "https://auth.stormforge.dev",
     "https://api.dev-1.dev.gramlabs.dev", "https://auth.dev-1.dev.gramlabs.dev",
     "https://h.example"}

\* u without its trailing slash, if it has one
TrimSlash(u) ==
    IF \E b \in URLBases : u = b \o "/" THEN CHOOSE b \in URLBases : u = b \o "/"
    ELSE IF \E b \in URLBases : u = b \o "/v1/accounts/"
         THEN (CHOOSE b \in URLBases : u = b \o "/v1/accounts/") \o "/v1/accounts"
         ELSE u

\* discovery.IssuerURL: the issuer without a trailing slash, or an error
IssuerURL(issuer) ==
    IF issuer = InvalidURL THEN [url |-> "", err |-> "invalid URL"]
    ELSE [url |-> TrimSlash(issuer), err |-> ""]

WellKnownURI(issuer, name) == issuer \o "/.well-known/" \o name

\* url.Parse followed by path.Join(u.Path, seg) and u.String()
JoinPath(u, seg) == TrimSlash(u) \o "/" \o seg

(***************************************************************************)
(* The default loader.                                                     *)
(***************************************************************************)
\* the results of bootstrapClusterName: the cluster name kubectl reports, or
\* "default" when it reports none
DiscoveredClusterNames == {"default", "kube"}

defaultStringOverwrite(s1, s2) == s2

defaultString(s1, s2) == IF s1 = "" THEN s2 ELSE s1

\* defaultServerRoots taking an unknown environment for production
defaultServerRootsLenient(env, srv) ==
    CASE env = environmentStaging ->
            [srv |-> [srv EXCEPT
                        !.Identifier = defaultString(@, "https://api.stormforge.dev/"),
                        !.Authorization.Issuer = defaultString(@, "https://auth.stormforge.dev/"),
                        !.Application.BaseURL = defaultString(@, "https://app.stormforge.dev/")],
             err |-> ""]
      [] env = environmentDevelopment ->
            [srv |-> [srv EXCEPT
                        !.Identifier = defaultString(@, "https://api.dev-1.dev.gramlabs.dev/"),
                        !.Authorization.Issuer = defaultString(@, "https://auth.dev-1.dev.gramlabs.dev/"),
                        !.Application.BaseURL = defaultString(@, "https://app.dev-1.dev.gramlabs.dev/")],
             err |-> ""]
      [] OTHER ->
            [srv |-> [srv EXCEPT
                        !.Identifier = defaultString(@, "https://api.stormforge.io/"),
                        !.Authorization.Issuer = defaultString(@, "https://auth.stormforge.io/"),
                        !.Application.BaseURL = defaultString(@, "https://app.stormforge.io/")],
             err |-> ""]

defaultServerRoots(env, srv) ==
    CASE env = environmentProduction ->
            [srv |-> [srv EXCEPT
                        !.Identifier = defaultString(@, "https://api.stormforge.io/"),
                        !.Authorization.Issuer = defaultString(@, "https://auth.stormforge.io/"),
                        !.Application.BaseURL = defaultString(@, "https://app.stormforge.io/")],
             err |-> ""]
      [] env = environmentStaging ->
            [srv |-> [srv EXCEPT
                        !.Identifier = defaultString(@, "https://api.stormforge.dev/"),
                        !.Authorization.Issuer = defaultString(@, "https://auth.stormforge.dev/"),
                        !.Application.BaseURL = defaultString(@, "https://app.stormforge.dev/")],
             err |-> ""]
      [] env = environmentDevelopment ->
            [srv |-> [srv EXCEPT
                        !.Identifier = defaultString(@, "https://api.dev-1.dev.gramlabs.dev/"),
                        !.Authorization.Issuer = defaultString(@, "https://auth.dev-1.dev.gramlabs.dev/"),
                        !.Application.BaseURL = defaultString(@, "https://app.dev-1.dev.gramlabs.dev/")],
             err |-> ""]
      [] OTHER -> [srv |-> srv, err |-> "unknown environment"]

defaultServerEndpoints(srv) ==
    LET api == IssuerURL(srv.Identifier)
        issuer == IssuerURL(srv.Authorization.Issuer)
    IN  IF api.err # "" THEN [srv |-> srv, err |-> api.err]
        ELSE IF issuer.err # "" THEN [srv |-> srv, err |-> issuer.err]
        ELSE LET s1 == [srv EXCEPT
                          !.API.ApplicationsEndpoint = defaultString(@, api.url \o "/v2/applications/"),
                          !.API.ExperimentsEndpoint = defaultString(@, api.url \o "/v1/experiments/"),
                          !.API.AccountsEndpoint = defaultString(@, api.url \o "/v1/accounts/"),
                          !.API.PerformanceTokenEndpoint =
                              defaultString(@, "https://app.stormforger.com/optimize/oauth/tokens"),
                          !.Authorization.AuthorizationEndpoint =
                              defaultString(@, issuer.url \o "/authorize"),
                          !.Authorization.TokenEndpoint = defaultString(@, issuer.url \o "/oauth/token"),
                          !.Authorization.RevocationEndpoint =
                              defaultString(@, issuer.url \o "/oauth/revoke"),
                          !.Authorization.DeviceAuthorizationEndpoint =
                              defaultString(@, issuer.url \o "/oauth/device/code"),
                          !.Authorization.JSONWebKeySetURI =
                              defaultString(@, WellKnownURI(issuer.url, "jwks.json")),
                          !.Application.AuthSuccessEndpoint =
                              defaultString(@, "https://docs.stormforge.io/api/auth_success/")]
             IN  IF s1.API.AccountsEndpoint = InvalidURL
                 THEN [srv |-> [s1 EXCEPT
                                  !.Authorization.RegistrationEndpoint =
                                      defaultString(@, api.url \o "/v1/accounts/clients"),
                                  !.API.RegistryRegistrationEndpoint =
                                      defaultString(@, api.url \o "/v1/accounts/robots")],
                       err |-> ""]
                 ELSE [srv |-> [s1 EXCEPT
                                  !.Authorization.RegistrationEndpoint =
                                      defaultString(@, JoinPath(s1.API.AccountsEndpoint, "clients")),
                                  !.API.RegistryRegistrationEndpoint =
                                      defaultString(@, JoinPath(s1.API.AccountsEndpoint, "robots"))],
                       err |-> ""]

\* addDefaultObjects adding a default server to a collection of any length
addDefaultObjectsAlways(d) ==
    [d.cfg EXCEPT
        !.Servers = Append(@, NamedServer("default", EmptyServer)),
        !.Authorizations =
            IF Len(@) = 0 THEN Append(@, NamedAuthorization("default", EmptyAuthorization)) ELSE @,
        !.Clusters = IF Len(@) = 0 THEN Append(@, NamedCluster(d.clusterName, EmptyCluster)) ELSE @,
        !.Controllers =
            IF Len(@) = 0 THEN Append(@, NamedController(d.clusterName, EmptyController)) ELSE @,
        !.Contexts = IF Len(@) = 0 THEN Append(@, NamedContext("default", EmptyContext)) ELSE @]

\* d: the defaults struct, [cfg, env, clusterName]
addDefaultObjects(d) ==
    [d.cfg EXCEPT
        !.Servers = IF Len(@) = 0 THEN Append(@, NamedServer("default", EmptyServer)) ELSE @,
        !.Authorizations =
            IF Len(@) = 0 THEN Append(@, NamedAuthorization("default", EmptyAuthorization)) ELSE @,
        !.Clusters = IF Len(@) = 0 THEN Append(@, NamedCluster(d.clusterName, EmptyCluster)) ELSE @,
        !.Controllers =
            IF Len(@) = 0 THEN Append(@, NamedController(d.clusterName, EmptyController)) ELSE @,
        !.Contexts = IF Len(@) = 0 THEN Append(@, NamedContext("default", EmptyContext)) ELSE @]

\* the loop of applyServerDefaults from server i on; the servers before i stay
\* as defaulted when a later one fails
RECURSIVE serverDefaultsLoop(_, _, _)
serverDefaultsLoop(c, env, i) ==
    IF i > Len(c.Servers) THEN [cfg |-> c, err |-> ""]
    ELSE LET roots == defaultServerRoots(env, c.Servers[i].Server)
             ends == defaultServerEndpoints(roots.srv)
         IN  IF roots.err # "" THEN [cfg |-> c, err |-> roots.err]
             ELSE IF ends.err # ""
                  THEN [cfg |-> [c EXCEPT !.Servers[i].Server = roots.srv], err |-> ends.err]
                  ELSE serverDefaultsLoop([c EXCEPT !.Servers[i].Server = ends.srv], env, i + 1)

applyServerDefaults(d) == serverDefaultsLoop(d.cfg, d.env, 1)

applyControllerDefaults(d) ==
    [d.cfg EXCEPT !.Controllers =
        [i \in DOMAIN @ |->
            [@[i] EXCEPT !.Controller.DeploymentName = defaultString(@, "optimize-controller-manager"),
                         !.Controller.Namespace = defaultString(@, "stormforge-system")]]]

(***************************************************************************)
(* Default name functions.  s is the value of the field they may set; the  *)
(* result is the field's new value and the error.                          *)
(***************************************************************************)
defaultServerNameStrict(d, s, name) ==
    IF findServer(d.cfg.Servers, name) # 0 THEN [s |-> defaultString(s, name), err |-> ""]
    ELSE IF Len(d.cfg.Servers) = 1
         THEN [s |-> defaultString(s, d.cfg.Servers[1].Name), err |-> ""]
    ELSE IF findServer(d.cfg.Servers, "default") # 0
         THEN [s |-> defaultString(s, "default"), err |-> ""]
    ELSE [s |-> s, err |-> "could not imply default server name for context"]

defaultServerName(d, s, name) ==
    IF findServer(d.cfg.Servers, name) # 0 THEN [s |-> defaultString(s, name), err |-> ""]
    ELSE IF Len(d.cfg.Servers) = 1
         THEN [s |-> defaultString(s, d.cfg.Servers[1].Name), err |-> ""]
    ELSE IF findServer(d.cfg.Servers, "default") # 0
         THEN [s |-> defaultString(s, "default"), err |-> ""]
    ELSE IF s # "" THEN [s |-> s, err |-> ""]
    ELSE [s |-> s, err |-> "could not imply default server name for context"]

defaultAuthorizationNameServerFirst(d, s, name, server) ==
    IF findAuthorization(d.cfg.Authorizations, server) # 0
    THEN [s |-> defaultString(s, server), err |-> ""]
    ELSE IF findAuthorization(d.cfg.Authorizations, name) # 0
         THEN [s |-> defaultString(s, name), err |-> ""]
    ELSE IF Len(d.cfg.Authorizations) = 1
         THEN [s |-> defaultString(s, d.cfg.Authorizations[1].Name), err |-> ""]
    ELSE IF findAuthorization(d.cfg.Authorizations, "default") # 0
         THEN [s |-> defaultString(s, "default"), err |-> ""]
    ELSE IF s # "" THEN [s |-> s, err |-> ""]
    ELSE [s |-> s, err |-> "could not imply default authorization name for context"]

defaultAuthorizationName(d, s, name, server) ==
    IF findAuthorization(d.cfg.Authorizations, name) # 0
    THEN [s |-> defaultString(s, name), err |-> ""]
    ELSE IF findAuthorization(d.cfg.Authorizations, server) # 0
         THEN [s |-> defaultString(s, server), err |-> ""]
    ELSE IF Len(d.cfg.Authorizations) = 1
         THEN [s |-> defaultString(s, d.cfg.Authorizations[1].Name), err |-> ""]
    ELSE IF findAuthorization(d.cfg.Authorizations, "default") # 0
         THEN [s |-> defaultString(s, "default"), err |-> ""]
    ELSE IF s # "" THEN [s |-> s, err |-> ""]
    ELSE [s |-> s, err |-> "could not imply default authorization name for context"]

defaultClusterNameLiteral(d, s, name) ==
    IF findCluster(d.cfg.Clusters, name) # 0 THEN [s |-> defaultString(s, name), err |-> ""]
    ELSE IF Len(d.cfg.Clusters) = 1
         THEN [s |-> defaultString(s, d.cfg.Clusters[1].Name), err |-> ""]
    ELSE IF findCluster(d.cfg.Clusters, "default") # 0
         THEN [s |-> defaultString(s, "default"), err |-> ""]
    ELSE IF s # "" THEN [s |-> s, err |-> ""]
    ELSE [s |-> s, err |-> "could not imply default cluster name for context"]

defaultClusterName(d, s, name) ==
    IF findCluster(d.cfg.Clusters, name) # 0 THEN [s |-> defaultString(s, name), err |-> ""]
    ELSE IF Len(d.cfg.Clusters) = 1
         THEN [s |-> defaultString(s, d.cfg.Clusters[1].Name), err |-> ""]
    ELSE IF findCluster(d.cfg.Clusters, d.clusterName) # 0
         THEN [s |-> defaultString(s, d.clusterName), err |-> ""]
    ELSE IF s # "" THEN [s |-> s, err |-> ""]
    ELSE [s |-> s, err |-> "could not imply default cluster name for context"]

\* defaultControllerName succeeding also when no strategy matches
defaultControllerNameSilent(d, s, name) ==
    IF findController(d.cfg.Controllers, name) # 0 THEN [s |-> defaultString(s, name), err |-> ""]
    ELSE IF Len(d.cfg.Controllers) = 1
         THEN [s |-> defaultString(s, d.cfg.Controllers[1].Name), err |-> ""]
    ELSE IF findController(d.cfg.Controllers, d.clusterName) # 0
         THEN [s |-> defaultString(s, d.clusterName), err |-> ""]
    ELSE [s |-> s, err |-> ""]

defaultControllerName(d, s, name) ==
    IF findController(d.cfg.Controllers, name) # 0 THEN [s |-> defaultString(s, name), err |-> ""]
    ELSE IF Len(d.cfg.Controllers) = 1
         THEN [s |-> defaultString(s, d.cfg.Controllers[1].Name), err |-> ""]
    ELSE IF findController(d.cfg.Controllers, d.clusterName) # 0
         THEN [s |-> defaultString(s, d.clusterName), err |-> ""]
    ELSE IF s # "" THEN [s |-> s, err |-> ""]
    ELSE [s |-> s, err |-> "could not imply default controller name for cluster"]

defaultContextName(d, s) ==
    IF Len(d.cfg.Contexts) = 1 THEN [s |-> defaultString(s, d.cfg.Contexts[1].Name), err |-> ""]
    ELSE IF findContext(d.cfg.Contexts, "default") # 0
         THEN [s |-> defaultString(s, "default"), err |-> ""]
    ELSE IF s # "" THEN [s |-> s, err |-> ""]
    ELSE [s |-> s, err |-> "could not imply default current context"]

(***************************************************************************)
(* Inputs of the merge: the configs a file or a caller can supply.  A base *)
(* and an overlay vary one part of the Config at a time.                   *)
(***************************************************************************)
MergeNames == {"a", "b"}

\* a server whose fields alternate between the values x and y
mkServer(x, y) ==
    [Identifier |-> x,
     API |-> [ApplicationsEndpoint |-> y, ExperimentsEndpoint |-> x, AccountsEndpoint |-> y,
              PerformanceTokenEndpoint |-> x, RegistryRegistrationEndpoint |-> y],
     Authorization |-> [Issuer |-> x, AuthorizationEndpoint |-> y, TokenEndpoint |-> x,
                        RevocationEndpoint |-> y, RegistrationEndpoint |-> x,
                        DeviceAuthorizationEndpoint |-> y, JSONWebKeySetURI |-> x],
     Application |-> [BaseURL |-> y, AuthSuccessEndpoint |-> x]]

mkCluster(x, y) ==
    [KubeConfig |-> x, Context |-> y, Namespace |-> x, Bin |-> y, Controller |-> x]

mkController(x, y, env) ==
    [DeploymentName |-> x, Namespace |-> y, RegistrationClientURI |-> x,
     RegistrationAccessToken |-> y, Env |-> env]

mkContext(x, y) == [Server |-> x, Authorization |-> y, Cluster |-> x]

mkToken(at, tt) ==
    [TokenCredential |-> <<[AccessToken |-> at, TokenType |-> tt, RefreshToken |-> "", Expiry |-> 0]>>,
     ClientCredential |-> <<>>]

mkClient(id, secret) ==
    [TokenCredential |-> <<>>,
     ClientCredential |-> <<[ClientID |-> id, ClientSecret |-> secret, Scope |-> ""]>>]

EnvNames == {"A", "B"}
EnvValues == {"", "1", "9"}
EnvVars == [Name : EnvNames, Value : EnvValues]

ExampleBaseEnv == <<[Name |-> "A", Value |-> "1"], [Name |-> "B", Value |-> "2"]>>
ExampleOverlayEnv == <<[Name |-> "B", Value |-> "9"], [Name |-> "C", Value |-> "3"]>>

BaseBodies(fld) ==
    CASE fld = "Server" -> {mkServer("p", ""), mkServer("", "r")}
      [] fld = "Authorization" -> {[Credential |-> mkToken("t0", "bearer")],
                                   [Credential |-> mkClient("c0", "s0")]}
      [] fld = "Cluster" -> {mkCluster("p", ""), mkCluster("", "r")}
      [] fld = "Controller" -> {mkController("p", "", <<[Name |-> "A", Value |-> "1"]>>),
                                mkController("", "r", <<>>)}
      [] fld = "Context" -> {mkContext("p", ""), mkContext("", "r")}

OverlayBodies(fld) ==
    CASE fld = "Server" -> {mkServer("", ""), mkServer("p", ""), mkServer("q", "r")}
      [] fld = "Authorization" -> {[Credential |-> EmptyCredential],
                                   [Credential |-> mkToken("t1", "bearer")],
                                   [Credential |-> mkToken("", "bearer")],
                                   [Credential |-> mkClient("c1", "s1")],
                                   [Credential |-> mkClient("", "s1")]}
      [] fld = "Cluster" -> {mkCluster("", ""), mkCluster("p", ""), mkCluster("q", "r")}
      [] fld = "Controller" -> {mkController("", "", <<>>),
                                mkController("p", "", <<[Name |-> "B", Value |-> "9"]>>),
                                mkController("q", "r", <<[Name |-> "A", Value |-> "9"]>>)}
      [] fld = "Context" -> {mkContext("", ""), mkContext("p", ""), mkContext("q", "r")}

Collections ==
    {<<"Servers", "Server">>, <<"Authorizations", "Authorization">>, <<"Clusters", "Cluster">>,
     <<"Controllers", "Controller">>, <<"Contexts", "Context">>}

NamedEntries(fld, bodies) == {namedEntry(fld, n, b) : n \in MergeNames, b \in bodies}

\* configs that vary collection k only
ListConfigs(k, bodies) ==
    {[EmptyConfig EXCEPT ![k[1]] = l] : l \in SeqsUpTo(NamedEntries(k[2], bodies), MaxLen)}

\* configs with the single controller "a", varying its env
EnvConfigs(extra) ==
    {[EmptyConfig EXCEPT !.Controllers = <<NamedController("a", mkController("", "", e))>>]
     : e \in SeqsUpTo(EnvVars, MaxEnv) \cup {extra}}

\* configs that vary the two scalars only
ScalarConfigs(ctxs, envs) ==
    {[EmptyConfig EXCEPT !.CurrentContext = c, !.Environment = e] : c \in ctxs, e \in envs}

Kinds == Collections \cup {<<"Env">>, <<"Scalars">>}

BaseConfigs(k) ==
    IF k = <<"Env">> THEN EnvConfigs(ExampleBaseEnv)
    ELSE IF k = <<"Scalars">> THEN ScalarConfigs({"", "a"}, {"", "staging"})
    ELSE ListConfigs(k, BaseBodies(k[2]))

OverlayConfigs(k) ==
    IF k = <<"Env">> THEN EnvConfigs(ExampleOverlayEnv)
    ELSE IF k = <<"Scalars">> THEN ScalarConfigs({"", "b"}, {"", "development"})
    ELSE ListConfigs(k, OverlayBodies(k[2]))

\* the parts a base config varies (the overlay drawn for it varies one of them)
KindsOf(c) == {k \in Kinds : c \in BaseConfigs(k)}

(***************************************************************************)
(* The merge as a state machine: Config.Merge applied to a loaded base,    *)
(* and the same overlay applied a second time.                             *)
(***************************************************************************)
InitMerge ==
    /\ \E k \in Kinds : cfg \in BaseConfigs(k)
    /\ pre = cfg
    /\ op = "init"
    /\ arg = EmptyConfig
    /\ err = ""
    /\ pc = [at |-> "merge", i |-> 0, pass |-> 0]

\* mergeConfig(cfg, c2) for an overlay c2
Merge ==
    /\ op = "init"
    /\ \E c2 \in UNION {OverlayConfigs(k) : k \in KindsOf(cfg)} :
          /\ cfg' \in mergeConfig(cfg, c2)
          /\ arg' = c2
    /\ pre' = cfg
    /\ op' = "merge"
    /\ err' = ""
    /\ UNCHANGED pc

\* mergeConfig(cfg, c2) with the overlay of the previous merge
MergeAgain ==
    /\ op = "merge"
    /\ cfg' \in mergeConfig(cfg, arg)
    /\ pre' = cfg
    /\ op' = "remerge"
    /\ UNCHANGED <<arg, err, pc>>

NextMerge == Merge \/ MergeAgain

SpecMerge == InitMerge /\ [][NextMerge]_vars

(***************************************************************************)
(* Properties of the merge.  After Merge and MergeAgain, pre is the base,  *)
(* arg the overlay and cfg the result.                                     *)
(***************************************************************************)
Merged == op \in {"merge", "remerge"}

\* the name n occurs exactly once in the list l
Once(l, n) == Cardinality({i \in DOMAIN l : l[i].Name = n}) = 1

DistinctNames(l) == \A n \in NamesOf(l) : Once(l, n)

\* the entry of l named n, for a name that occurs once
Entry(l, n) == l[FirstIndex(l, n)]

BaseOnlyKept ==
    \A k \in Collections : \A i \in DOMAIN pre[k[1]] :
        pre[k[1]][i].Name \notin NamesOf(arg[k[1]])
            => i \in DOMAIN cfg[k[1]] /\ cfg[k[1]][i] = pre[k[1]][i]

OverlayOnlyAdded(repeated) ==
    \A k \in Collections : \A j \in DOMAIN arg[k[1]] :
        /\ arg[k[1]][j].Name \notin NamesOf(pre[k[1]])
        /\ repeated \/ Once(arg[k[1]], arg[k[1]][j].Name)
        => \E i \in DOMAIN cfg[k[1]] : cfg[k[1]][i] = arg[k[1]][j]

\* C1 as stated: merge leaves every entry of the base whose name is absent from
\* the overlay unchanged and in place, and the result contains every entry of the
\* overlay whose name is absent from the base, body unchanged, in each collection.
C1_AllOverlayEntriesKept == Merged => BaseOnlyKept /\ OverlayOnlyAdded(TRUE)

\* C1 (amended): as above, for the overlay entries whose name is absent from the
\* base and is not repeated within the overlay's collection.
C1_Frame == Merged => BaseOnlyKept /\ OverlayOnlyAdded(FALSE)

C1_Witness ==
    /\ op = "merge"
    /\ \E k \in Collections :
          /\ \E i \in DOMAIN pre[k[1]] : pre[k[1]][i].Name \notin NamesOf(arg[k[1]])
          /\ \E j \in DOMAIN arg[k[1]] :
                /\ arg[k[1]][j].Name \notin NamesOf(pre[k[1]])
                /\ cfg[k[1]][Len(cfg[k[1]])] = arg[k[1]][j]

\* C2: merging the same overlay a second time changes nothing:
\* merge(merge(A, B), B) = merge(A, B).
C2_Idempotent == op = "remerge" => cfg = pre

\* the scalar fields of a body
Scalars(fld, b) ==
    CASE fld = "Server" ->
            <<b.Identifier, b.API.ApplicationsEndpoint, b.API.ExperimentsEndpoint,
              b.API.AccountsEndpoint, b.API.PerformanceTokenEndpoint,
              b.API.RegistryRegistrationEndpoint, b.Authorization.Issuer,
              b.Authorization.AuthorizationEndpoint, b.Authorization.TokenEndpoint,
              b.Authorization.RevocationEndpoint, b.Authorization.RegistrationEndpoint,
              b.Authorization.DeviceAuthorizationEndpoint, b.Authorization.JSONWebKeySetURI,
              b.Application.BaseURL, b.Application.AuthSuccessEndpoint>>
      [] fld = "Cluster" -> <<b.KubeConfig, b.Context, b.Namespace, b.Bin, b.Controller>>
      [] fld = "Controller" ->
            <<b.DeploymentName, b.Namespace, b.RegistrationClientURI, b.RegistrationAccessToken>>
      [] fld = "Context" -> <<b.Server, b.Authorization, b.Cluster>>
      [] fld = "Authorization" -> <<>>

\* C3: for an entry named in both base and overlay, every scalar field of the
\* body is the overlay's value when that is non-empty and the base's otherwise.
C3_EveryScalarMerged ==
    op = "merge" =>
        \A k \in Collections : \A i \in DOMAIN pre[k[1]] :
            LET n == pre[k[1]][i].Name
            IN  Once(pre[k[1]], n) /\ Once(arg[k[1]], n) =>
                    LET b == Scalars(k[2], pre[k[1]][i][k[2]])
                        o == Scalars(k[2], Entry(arg[k[1]], n)[k[2]])
                        r == Scalars(k[2], cfg[k[1]][i][k[2]])
                    IN  \A f \in DOMAIN r : r[f] = IF o[f] # "" THEN o[f] ELSE b[f]

\* the entries of the overlay l2 whose names are not in the base l1, in overlay order
RECURSIVE OverlayOnly(_, _)
OverlayOnly(l1, l2) ==
    IF l2 = <<>> THEN <<>>
    ELSE IF Head(l2).Name \in NamesOf(l1) THEN OverlayOnly(l1, Tail(l2))
         ELSE <<Head(l2)>> \o OverlayOnly(l1, Tail(l2))

\* C4: the overlay entries whose names were not in the base are at the end of
\* the collection, after all base entries, in the order they had in the overlay.
C4_AppendedInOverlayOrder ==
    op = "merge" =>
        \A k \in Collections :
            DistinctNames(arg[k[1]]) =>
                /\ Len(cfg[k[1]]) >= Len(pre[k[1]])
                /\ SubSeq(cfg[k[1]], Len(pre[k[1]]) + 1, Len(cfg[k[1]]))
                      = OverlayOnly(pre[k[1]], arg[k[1]])

\* what C5 says the credential is after merging overlay credential o into b
C5_Expected(b, o) ==
    IF Len(o.TokenCredential) = 1 /\ o.TokenCredential[1].AccessToken # ""
    THEN [TokenCredential |-> o.TokenCredential, ClientCredential |-> <<>>]
    ELSE IF Len(o.ClientCredential) = 1 /\ o.ClientCredential[1].ClientID # ""
         THEN [TokenCredential |-> <<>>, ClientCredential |-> o.ClientCredential]
         ELSE b

\* C5: merging an overlay authorization into the same-named base authorization
\* replaces the credential wholesale by the overlay's token credential (non-empty
\* access token) or client credential (non-empty client id), clearing the other
\* variant, and leaves the credential unchanged when the overlay has neither.
C5_CredentialReplaced ==
    Merged =>
        \A i \in DOMAIN pre.Authorizations :
            LET n == pre.Authorizations[i].Name
            IN  FirstIndex(pre.Authorizations, n) = i /\ Once(arg.Authorizations, n) =>
                    cfg.Authorizations[i].Authorization.Credential
                        = C5_Expected(pre.Authorizations[i].Authorization.Credential,
                                      Entry(arg.Authorizations, n).Authorization.Credential)

C5_Witness ==
    /\ op = "merge"
    /\ \E i \in DOMAIN pre.Authorizations :
          LET n == pre.Authorizations[i].Name
          IN  /\ FirstIndex(pre.Authorizations, n) = i
              /\ Once(arg.Authorizations, n)
              /\ pre.Authorizations[i].Authorization.Credential.ClientCredential # <<>>
              /\ Entry(arg.Authorizations, n).Authorization.Credential = mkToken("t1", "bearer")
              /\ cfg.Authorizations[i].Authorization.Credential = mkToken("t1", "bearer")

\* what C6 says the env is after merging overlay env o into base env b
C6_Expected(b, o) ==
    [j \in DOMAIN b |-> IF b[j].Name \in NamesOf(o) THEN Entry(o, b[j].Name) ELSE b[j]]
        \o OverlayOnly(b, o)

\* C6: an overlay variable named like a base variable overwrites that variable's
\* value in place, and the other overlay variables are appended in overlay order.
C6_EnvMergedByName ==
    op = "merge" =>
        \A i \in DOMAIN pre.Controllers :
            LET n == pre.Controllers[i].Name
                b == pre.Controllers[i].Controller.Env
            IN  Once(pre.Controllers, n) /\ Once(arg.Controllers, n) =>
                    LET o == Entry(arg.Controllers, n).Controller.Env
                    IN  DistinctNames(b) /\ DistinctNames(o) =>
                            cfg.Controllers[i].Controller.Env = C6_Expected(b, o)

(***************************************************************************)
(* Inputs of the default loader: the configs a file can hold.  Each family *)
(* varies the collections one of the default name functions reads.         *)
(***************************************************************************)
DefaultNames == {"default", "x", "kube"}

ContextNames == {"default", "x"}

\* lists of entries with the given names and zero bodies
NamedLists(fld, body) ==
    SeqsUpTo({namedEntry(fld, n, body) : n \in DefaultNames}, MaxLen)

ServerRefConfigs ==
    {[EmptyConfig EXCEPT !.Servers = l, !.Contexts = c, !.CurrentContext = cc]
     : l \in NamedLists("Server", EmptyServer),
       c \in SeqsUpTo({NamedContext(n, [EmptyContext EXCEPT !.Server = r])
                          : n \in ContextNames, r \in {"", "kube"}}, MaxLen),
       cc \in {"", "kube"}}

AuthorizationRefConfigs ==
    {[EmptyConfig EXCEPT !.Servers = l, !.Authorizations = a, !.Contexts = c]
     : l \in NamedLists("Server", EmptyServer),
       a \in NamedLists("Authorization", EmptyAuthorization),
       c \in {<<NamedContext(n, [EmptyContext EXCEPT !.Authorization = r])>>
                : n \in ContextNames, r \in {"", "kube"}}}

ClusterRefConfigs ==
    {[EmptyConfig EXCEPT !.Clusters = l, !.Contexts = c]
     : l \in NamedLists("Cluster", EmptyCluster),
       c \in SeqsUpTo({NamedContext("x", [EmptyContext EXCEPT !.Cluster = r])
                          : r \in {"", "kube"}}, MaxLen)}

ControllerRefConfigs ==
    {[EmptyConfig EXCEPT !.Clusters = l, !.Controllers = c]
     : l \in SeqsUpTo({NamedCluster(n, [EmptyCluster EXCEPT !.Controller = r])
                          : n \in DefaultNames, r \in {"", "kube"}}, MaxLen),
       c \in NamedLists("Controller", EmptyController)}

\* configs whose fields are partly set, under each stored environment
FieldConfigs ==
    {[EmptyConfig EXCEPT !.Servers = l, !.Clusters = c, !.Controllers = k, !.Environment = e]
     : l \in {<<>>} \cup {<<NamedServer("default", b)>>
                            : b \in {EmptyServer,
                                     [EmptyServer EXCEPT !.Identifier = "https://h.example/"],
                                     [EmptyServer EXCEPT !.Authorization.Issuer = InvalidURL],
                                     mkServer("https://h.example/", "https://h.example/acct"),
                                     mkServer("https://h.example/", InvalidURL)}},
       c \in {<<>>, <<NamedCluster("x", mkCluster("", "oc"))>>},
       k \in {<<>>,
              <<NamedController("x", mkController("mgr", "", <<[Name |-> "A", Value |-> "1"]>>))>>,
              <<NamedController("x", mkController("", "ns", <<>>))>>},
       e \in {"", "staging", "development", "bogus"}}

DefaultsConfigs ==
    ServerRefConfigs \cup AuthorizationRefConfigs \cup ClusterRefConfigs
        \cup ControllerRefConfigs \cup FieldConfigs

(***************************************************************************)
(* defaultLoader as a state machine.  One pass is a run of the steps below *)
(* in program order (pc.at), each step one call made by defaultLoader or   *)
(* by the loops of applyClusterDefaults and applyContextDefaults; a pass   *)
(* that returned no error can be followed by another pass on its result.   *)
(* During a pass pre is the Config the pass started from, and arg is the   *)
(* defaults struct (env, clusterName) together with the enclosing entity   *)
(* (name, i) and the previous value (was) of the field of the last step.   *)
(***************************************************************************)
MaxPasses == 2

InitDefaults ==
    /\ cfg \in DefaultsConfigs
    /\ pre = cfg
    /\ op = "init"
    /\ arg = [env |-> "", clusterName |-> "", name |-> "", i |-> 0, was |-> ""]
    /\ err = ""
    /\ pc = [at |-> "idle", i |-> 0, pass |-> 0]

\* the defaults struct of the running pass
D == [cfg |-> cfg, env |-> arg.env, clusterName |-> arg.clusterName]

\* where a pass continues after its step returned e at position i of a list of length n
Continue(e, loop, i, n, next) ==
    IF e # "" THEN [pc EXCEPT !.at = "done"]
    ELSE IF i < n THEN [pc EXCEPT !.at = loop, !.i = i + 1]
    ELSE [pc EXCEPT !.at = next, !.i = 1]

\* defaultLoader up to and including d.addDefaultObjects()
Begin ==
    /\ \/ pc.at = "idle"
       \/ pc.at = "done" /\ err = "" /\ pc.pass < MaxPasses
    /\ \E cn \in DiscoveredClusterNames :
          /\ arg' = [env |-> Environment(cfg), clusterName |-> cn, name |-> "", i |-> 0, was |-> ""]
          /\ cfg' = addDefaultObjects([cfg |-> cfg, env |-> Environment(cfg), clusterName |-> cn])
    /\ pre' = cfg
    /\ op' = "addDefaultObjects"
    /\ err' = ""
    /\ pc' = [at |-> "applyServerDefaults", i |-> 1, pass |-> pc.pass + 1]

ApplyServerDefaults ==
    /\ pc.at = "applyServerDefaults"
    /\ LET r == applyServerDefaults(D)
       IN  /\ cfg' = r.cfg
           /\ err' = r.err
           /\ pc' = Continue(r.err, "", 1, 1, "applyClusterDefaults")
    /\ op' = "applyServerDefaults"
    /\ UNCHANGED <<pre, arg>>

\* one iteration of the loop of applyClusterDefaults
ApplyClusterDefaults ==
    /\ pc.at = "applyClusterDefaults"
    /\ LET i == pc.i
           bin == [cfg EXCEPT !.Clusters[i].Cluster.Bin = defaultString(@, "kubectl")]
           r == defaultControllerName([D EXCEPT !.cfg = bin], bin.Clusters[i].Cluster.Controller,
                                      bin.Clusters[i].Name)
       IN  /\ cfg' = [bin EXCEPT !.Clusters[i].Cluster.Controller = r.s]
           /\ err' = r.err
           /\ arg' = [arg EXCEPT !.name = cfg.Clusters[i].Name, !.i = i,
                                 !.was = cfg.Clusters[i].Cluster.Controller]
           /\ pc' = Continue(r.err, "applyClusterDefaults", i, Len(cfg.Clusters),
                             "applyControllerDefaults")
    /\ op' = "defaultControllerName"
    /\ UNCHANGED pre

ApplyControllerDefaults ==
    /\ pc.at = "applyControllerDefaults"
    /\ cfg' = applyControllerDefaults(D)
    /\ err' = ""
    /\ op' = "applyControllerDefaults"
    /\ pc' = [pc EXCEPT !.at = "defaultServerName", !.i = 1]
    /\ UNCHANGED <<pre, arg>>

\* applyContextDefaults, context pc.i: d.defaultServerName(&ctx.Server, name)
DefaultServerName ==
    /\ pc.at = "defaultServerName"
    /\ LET i == pc.i
           r == defaultServerName(D, cfg.Contexts[i].Context.Server, cfg.Contexts[i].Name)
       IN  /\ cfg' = [cfg EXCEPT !.Contexts[i].Context.Server = r.s]
           /\ err' = r.err
           /\ arg' = [arg EXCEPT !.name = cfg.Contexts[i].Name, !.i = i,
                                 !.was = cfg.Contexts[i].Context.Server]
           /\ pc' = IF r.err # "" THEN [pc EXCEPT !.at = "done"]
                    ELSE [pc EXCEPT !.at = "defaultAuthorizationName"]
    /\ op' = "defaultServerName"
    /\ UNCHANGED pre

\* d.defaultAuthorizationName with the server reference as it was before
\* d.defaultServerName
DefaultAuthorizationNameStaleServer ==
    /\ pc.at = "defaultAuthorizationName"
    /\ LET i == pc.i
           r == defaultAuthorizationName(D, cfg.Contexts[i].Context.Authorization,
                                         cfg.Contexts[i].Name, arg.was)
       IN  /\ cfg' = [cfg EXCEPT !.Contexts[i].Context.Authorization = r.s]
           /\ err' = r.err
           /\ arg' = [arg EXCEPT !.name = cfg.Contexts[i].Name, !.i = i,
                                 !.was = cfg.Contexts[i].Context.Authorization]
           /\ pc' = IF r.err # "" THEN [pc EXCEPT !.at = "done"]
                    ELSE [pc EXCEPT !.at = "defaultClusterName"]
    /\ op' = "defaultAuthorizationName"
    /\ UNCHANGED pre

\* d.defaultAuthorizationName(&ctx.Authorization, name, ctx.Server)
DefaultAuthorizationName ==
    /\ pc.at = "defaultAuthorizationName"
    /\ LET i == pc.i
           r == defaultAuthorizationName(D, cfg.Contexts[i].Context.Authorization,
                                         cfg.Contexts[i].Name, cfg.Contexts[i].Context.Server)
       IN  /\ cfg' = [cfg EXCEPT !.Contexts[i].Context.Authorization = r.s]
           /\ err' = r.err
           /\ arg' = [arg EXCEPT !.name = cfg.Contexts[i].Name, !.i = i,
                                 !.was = cfg.Contexts[i].Context.Authorization]
           /\ pc' = IF r.err # "" THEN [pc EXCEPT !.at = "done"]
                    ELSE [pc EXCEPT !.at = "defaultClusterName"]
    /\ op' = "defaultAuthorizationName"
    /\ UNCHANGED pre

\* d.defaultClusterName(&ctx.Cluster, name), the last step for context pc.i
DefaultClusterName ==
    /\ pc.at = "defaultClusterName"
    /\ LET i == pc.i
           r == defaultClusterName(D, cfg.Contexts[i].Context.Cluster, cfg.Contexts[i].Name)
       IN  /\ cfg' = [cfg EXCEPT !.Contexts[i].Context.Cluster = r.s]
           /\ err' = r.err
           /\ arg' = [arg EXCEPT !.name = cfg.Contexts[i].Name, !.i = i,
                                 !.was = cfg.Contexts[i].Context.Cluster]
           /\ pc' = Continue(r.err, "defaultServerName", i, Len(cfg.Contexts),
                             "defaultContextName")
    /\ op' = "defaultClusterName"
    /\ UNCHANGED pre

\* d.defaultContextName(&d.cfg.CurrentContext) and the return of defaultLoader
DefaultContextName ==
    /\ pc.at = "defaultContextName"
    /\ LET r == defaultContextName(D, cfg.CurrentContext)
       IN  /\ cfg' = [cfg EXCEPT !.CurrentContext = r.s]
           /\ err' = r.err
    /\ arg' = [arg EXCEPT !.name = "", !.i = 0, !.was = cfg.CurrentContext]
    /\ pc' = [pc EXCEPT !.at = "done"]
    /\ op' = "defaultContextName"
    /\ UNCHANGED pre

NextDefaults ==
    \/ Begin
    \/ ApplyServerDefaults
    \/ ApplyClusterDefaults
    \/ ApplyControllerDefaults
    \/ DefaultServerName
    \/ DefaultAuthorizationName
    \/ DefaultClusterName
    \/ DefaultContextName

SpecDefaults == InitDefaults /\ [][NextDefaults]_vars

(***************************************************************************)
(* Properties of the default loader.                                       *)
(***************************************************************************)
\* a pass has returned nil
PassDone == pc.at = "done" /\ err = ""

\* every non-empty field of config a has the same value in config b
NonEmptyKept(a, b) ==
    /\ \A k \in Collections :
          /\ Len(b[k[1]]) >= Len(a[k[1]])
          /\ \A i \in DOMAIN a[k[1]] :
                /\ b[k[1]][i].Name = a[k[1]][i].Name
                /\ LET x == Scalars(k[2], a[k[1]][i][k[2]])
                       y == Scalars(k[2], b[k[1]][i][k[2]])
                   IN  \A f \in DOMAIN x : x[f] # "" => y[f] = x[f]
    /\ \A i \in DOMAIN a.Authorizations : b.Authorizations[i] = a.Authorizations[i]
    /\ \A i \in DOMAIN a.Controllers :
          b.Controllers[i].Controller.Env = a.Controllers[i].Controller.Env
    /\ a.CurrentContext # "" => b.CurrentContext = a.CurrentContext
    /\ b.Environment = a.Environment

\* C7: when defaultLoader succeeds, every field that was non-empty before the
\* pass has the same value after it, and a second pass on the result of a pass
\* changes nothing.
C7_NeverOverwrites ==
    PassDone => NonEmptyKept(pre, cfg) /\ (pc.pass >= 2 => cfg = pre)

C7_Witness ==
    /\ PassDone
    /\ pc.pass = 2
    /\ cfg = pre
    /\ \E i \in DOMAIN cfg.Servers :
          /\ cfg.Servers[i].Server.Identifier = "https://h.example/"
          /\ cfg.Servers[i].Server.API.ExperimentsEndpoint = "https://h.example/v1/experiments/"
          /\ cfg.Servers[i].Server.Authorization.Issuer = "https://auth.stormforge.dev/"

\* the steps that call a default name function
Resolvers ==
    {"defaultControllerName", "defaultServerName", "defaultAuthorizationName",
     "defaultClusterName", "defaultContextName"}

\* the field the last step resolved, as it is now
Resolved ==
    CASE op = "defaultControllerName" -> cfg.Clusters[arg.i].Cluster.Controller
      [] op = "defaultServerName" -> cfg.Contexts[arg.i].Context.Server
      [] op = "defaultAuthorizationName" -> cfg.Contexts[arg.i].Context.Authorization
      [] op = "defaultClusterName" -> cfg.Contexts[arg.i].Context.Cluster
      [] op = "defaultContextName" -> cfg.CurrentContext

\* the names of the collection the last step looked into
TargetNames ==
    CASE op = "defaultControllerName" -> [i \in DOMAIN cfg.Controllers |-> cfg.Controllers[i].Name]
      [] op = "defaultServerName" -> [i \in DOMAIN cfg.Servers |-> cfg.Servers[i].Name]
      [] op = "defaultAuthorizationName" ->
            [i \in DOMAIN cfg.Authorizations |-> cfg.Authorizations[i].Name]
      [] op = "defaultClusterName" -> [i \in DOMAIN cfg.Clusters |-> cfg.Clusters[i].Name]
      [] op = "defaultContextName" -> [i \in DOMAIN cfg.Contexts |-> cfg.Contexts[i].Name]

\* the strategies of the Implied Name algorithm, for the last step
ByEntityName == op # "defaultContextName" /\ arg.name \in Range(TargetNames)

ByServerName ==
    op = "defaultAuthorizationName" /\ cfg.Contexts[arg.i].Context.Server \in Range(TargetNames)

BySingleEntry == Len(TargetNames) = 1

FallbackName ==
    IF op \in {"defaultClusterName", "defaultControllerName"} THEN arg.clusterName ELSE "default"

ByFallbackName == FallbackName \in Range(TargetNames)

\* C8: a default name function given a non-empty field succeeds and leaves it
\* unchanged; given an empty field it returns an error exactly when none of its
\* strategies matches, and the field is then still empty.
C8_ImpliedNameOutcome ==
    op \in Resolvers =>
        /\ arg.was # "" => err = "" /\ Resolved = arg.was
        /\ arg.was = "" =>
              /\ err # "" <=> ~(ByEntityName \/ ByServerName \/ BySingleEntry \/ ByFallbackName)
              /\ err # "" => Resolved = ""

C8_Witness ==
    /\ op = "defaultServerName"
    /\ arg.was = ""
    /\ Len(cfg.Servers) = 2
    /\ err # ""
    /\ cfg.Contexts[arg.i].Context.Server = ""

\* C9: an empty reference takes the name of the first strategy that matches, in
\* the order: entry named after the enclosing entity; for authorizations, entry
\* named after the context's server; sole entry; fallback-named entry.
C9_StrategyOrder ==
    op \in Resolvers /\ arg.was = "" /\ err = "" =>
        Resolved = IF ByEntityName THEN arg.name
                   ELSE IF ByServerName THEN cfg.Contexts[arg.i].Context.Server
                   ELSE IF BySingleEntry THEN TargetNames[1]
                   ELSE FallbackName

C9_Witness ==
    /\ op = "defaultAuthorizationName"
    /\ arg.was = ""
    /\ ByEntityName
    /\ ByServerName
    /\ "default" \in Range(TargetNames)
    /\ cfg.Contexts[arg.i].Context.Server # arg.name
    /\ arg.name # "default"
    /\ cfg.Contexts[arg.i].Context.Authorization = arg.name

\* the last step resolved an empty cluster or controller reference against two
\* or more entries, none named after the enclosing entity
ClusterFallbackCase ==
    /\ op \in {"defaultClusterName", "defaultControllerName"}
    /\ arg.was = ""
    /\ Len(TargetNames) >= 2
    /\ arg.name \notin Range(TargetNames)

\* C10 as stated: in that case, when one entry is named "default" the reference
\* resolves to "default", whatever the discovered cluster name.
C10_LiteralDefault ==
    ClusterFallbackCase /\ "default" \in Range(TargetNames) => err = "" /\ Resolved = "default"

\* C10 (amended): in that case the last strategy looks for the entry named after
\* the discovered cluster name: the reference resolves to that name when such an
\* entry exists and resolution fails otherwise, also when an entry is named
\* "default"; the server, authorization and current-context functions fall back
\* to the entry named "default".
C10_FallbackName ==
    /\ ClusterFallbackCase =>
          IF arg.clusterName \in Range(TargetNames)
          THEN err = "" /\ Resolved = arg.clusterName
          ELSE err # "" /\ Resolved = ""
    /\ /\ op \in {"defaultServerName", "defaultAuthorizationName", "defaultContextName"}
       /\ arg.was = ""
       /\ ~(ByEntityName \/ ByServerName \/ BySingleEntry)
       => IF "default" \in Range(TargetNames)
          THEN err = "" /\ Resolved = "default"
          ELSE err # "" /\ Resolved = ""

C10_Witness ==
    /\ ClusterFallbackCase
    /\ op = "defaultClusterName"
    /\ arg.clusterName = "kube"
    /\ Range(TargetNames) = {"default", "kube"}
    /\ cfg.Contexts[arg.i].Context.Cluster = "kube"

\* the names of the authorizations
AuthorizationNames == {cfg.Authorizations[i].Name : i \in DOMAIN cfg.Authorizations}

\* C11: the steps of applyContextDefaults follow each other per context in the
\* order server, authorization, cluster, the current context is resolved after
\* the last context, and the authorization step reads the server reference the
\* server step of the same context has just set: with an empty authorization
\* reference, no authorization named after the context and one named after that
\* server, the authorization reference becomes the server's name.
C11_ContextOrder ==
    [][/\ op' = "defaultServerName" =>
             \/ op = "applyControllerDefaults" /\ arg'.i = 1
             \/ op = "defaultClusterName" /\ arg'.i = arg.i + 1
       /\ op' = "defaultAuthorizationName" => op = "defaultServerName" /\ arg'.i = arg.i
       /\ op' = "defaultClusterName" => op = "defaultAuthorizationName" /\ arg'.i = arg.i
       /\ op' = "defaultContextName" => op = "defaultClusterName" /\ arg.i = Len(cfg.Contexts)
       /\ /\ op' = "defaultAuthorizationName"
          /\ arg'.was = ""
          /\ arg'.name \notin AuthorizationNames
          /\ cfg.Contexts[arg.i].Context.Server \in AuthorizationNames
          => /\ err' = ""
             /\ cfg'.Contexts[arg.i].Context.Authorization = cfg.Contexts[arg.i].Context.Server
      ]_vars

C11_Witness ==
    /\ op = "defaultAuthorizationName"
    /\ arg.was = ""
    /\ arg.i \in DOMAIN pre.Contexts
    /\ pre.Contexts[arg.i].Context.Server = ""
    /\ ~ByEntityName
    /\ Len(TargetNames) >= 2
    /\ cfg.Contexts[arg.i].Context.Server = "kube"
    /\ cfg.Contexts[arg.i].Context.Authorization = "kube"
    /\ "default" \in AuthorizationNames

\* the entry addDefaultObjects makes for collection k
SeedEntry(k) ==
    namedEntry(k[2],
               IF k[2] \in {"Cluster", "Controller"} THEN arg.clusterName ELSE "default",
               CASE k[2] = "Server" -> EmptyServer
                 [] k[2] = "Authorization" -> EmptyAuthorization
                 [] k[2] = "Cluster" -> EmptyCluster
                 [] k[2] = "Controller" -> EmptyController
                 [] k[2] = "Context" -> EmptyContext)

\* the empty config with environment "staging"
EmptyStaging == [EmptyConfig EXCEPT !.Environment = "staging"]

\* C12: addDefaultObjects adds exactly one entry to each collection that is
\* empty, named "default" for servers, authorizations and contexts and after
\* the discovered cluster name for clusters and controllers, and leaves every
\* other collection as it is; no later step of the pass adds or removes an
\* entry; on the empty config with environment "staging" the pass succeeds with
\* servers[0].identifier "https://api.stormforge.dev/" and one authorization,
\* one cluster and one context.
C12_Seeding ==
    /\ op = "addDefaultObjects" =>
          \A k \in Collections :
              cfg[k[1]] = IF pre[k[1]] = <<>> THEN <<SeedEntry(k)>> ELSE pre[k[1]]
    /\ pc.pass >= 1 =>
          \A k \in Collections :
              Len(cfg[k[1]]) = IF pre[k[1]] = <<>> THEN 1 ELSE Len(pre[k[1]])
    /\ pc.at = "done" /\ pre = EmptyStaging =>
          /\ err = ""
          /\ cfg.Servers[1].Server.Identifier = "https://api.stormforge.dev/"
          /\ Len(cfg.Authorizations) = 1
          /\ Len(cfg.Clusters) = 1
          /\ Len(cfg.Contexts) = 1

C12_Witness ==
    /\ pc.at = "done"
    /\ pre = EmptyStaging
    /\ arg.clusterName = "kube"
    /\ cfg.Servers[1].Name = "default"
    /\ cfg.Servers[1].Server.Identifier = "https://api.stormforge.dev/"
    /\ cfg.Clusters[1].Name = "kube"
    /\ cfg.Controllers[1].Name = "kube"
    /\ cfg.CurrentContext = "default"

\* the environments of the table of defaultServerRoots
RootEnvironments == {environmentProduction, environmentStaging, environmentDevelopment}

\* the identifier, authorization issuer and application base URL of the table
RootTable(env) ==
    CASE env = environmentProduction ->
            <<"https://api.stormforge.io/", "https://auth.stormforge.io/", "https://app.stormforge.io/">>
      [] env = environmentStaging ->
            <<"https://api.stormforge.dev/", "https://auth.stormforge.dev/", "https://app.stormforge.dev/">>
      [] env = environmentDevelopment ->
            <<"https://api.dev-1.dev.gramlabs.dev/", "https://auth.dev-1.dev.gramlabs.dev/",
              "https://app.dev-1.dev.gramlabs.dev/">>

\* the three root fields of server b
Roots(b) == <<b.Identifier, b.Authorization.Issuer, b.Application.BaseURL>>

\* the config of the running pass as addDefaultObjects left it
Seeded == addDefaultObjects([cfg |-> pre, env |-> arg.env, clusterName |-> arg.clusterName])

\* C13: when applyServerDefaults returns nil, the identifier, authorization
\* issuer and application base URL of every server are the previous value when
\* that was non-empty and the value of the environment's table otherwise; with
\* an environment outside the table applyServerDefaults returns an error, no
\* field of any server is filled, and the pass ends there: the cluster,
\* controller and context steps never run.
C13_ServerRoots ==
    /\ op = "applyServerDefaults" /\ err = "" =>
          /\ arg.env \in RootEnvironments
          /\ \A i \in DOMAIN cfg.Servers : \A f \in 1..3 :
                Roots(cfg.Servers[i].Server)[f]
                    = IF Roots(Seeded.Servers[i].Server)[f] # ""
                      THEN Roots(Seeded.Servers[i].Server)[f]
                      ELSE RootTable(arg.env)[f]
    /\ pc.pass >= 1 /\ op # "addDefaultObjects" /\ arg.env \notin RootEnvironments =>
          /\ op = "applyServerDefaults"
          /\ err # ""
          /\ pc.at = "done"
          /\ cfg = Seeded

C13_Witness ==
    /\ op = "applyServerDefaults"
    /\ arg.env = "bogus"
    /\ err # ""
    /\ pc.at = "done"
    /\ Len(pre.Servers) = 1
    /\ cfg.Servers[1].Server.Identifier = ""
    /\ cfg.Clusters[1].Cluster.Bin = ""

(***************************************************************************)
(* update.go: the changes.  A change applied to the Config data returns    *)
(* the Config it leaves behind and its error ("" for nil); the changes     *)
(* that merge return the set of such results.                              *)
(***************************************************************************)
SaveServer(data, name, srv, env) ==
    LET s1 == mergeServers(data, <<NamedServer(name, srv)>>)
        s2 == UNION {mergeAuthorizations(c, <<NamedAuthorization(name, EmptyAuthorization)>>)
                     : c \in s1}
    IN  {LET i == findServer(c.Servers, name)
             r == defaultServerRoots(env, c.Servers[i].Server)
         IN  [cfg |-> [c EXCEPT !.Servers[i].Server = r.srv], err |-> r.err]
         : c \in s2}

\* the TokenCredential SaveToken makes of the token t
tokenCredential(t) ==
    [AccessToken |-> t.AccessToken, TokenType |-> t.TokenType,
     RefreshToken |-> t.RefreshToken, Expiry |-> t.Expiry]

\* SaveToken leaving the client credential in place
SaveTokenKeepClient(data, name, t) ==
    LET i == findAuthorization(data.Authorizations, name)
        l == IF i = 0
             THEN Append(data.Authorizations, NamedAuthorization(name, EmptyAuthorization))
             ELSE data.Authorizations
        az == IF i = 0 THEN Len(l) ELSE i
    IN  [cfg |-> [data EXCEPT !.Authorizations =
                    [l EXCEPT ![az].Authorization.Credential.TokenCredential = <<tokenCredential(t)>>]],
         err |-> ""]

SaveToken(data, name, t) ==
    LET i == findAuthorization(data.Authorizations, name)
        l == IF i = 0
             THEN Append(data.Authorizations, NamedAuthorization(name, EmptyAuthorization))
             ELSE data.Authorizations
        az == IF i = 0 THEN Len(l) ELSE i
    IN  [cfg |-> [data EXCEPT !.Authorizations =
                    [l EXCEPT ![az].Authorization.Credential =
                        [TokenCredential |-> <<tokenCredential(t)>>, ClientCredential |-> <<>>]]],
         err |-> ""]

\* SaveClientRegistration appending a controller also when one has the name
SaveClientRegistrationAppend(data, name, info) ==
    LET l == Append(data.Controllers, NamedController(name, EmptyController))
        ctrl == Len(l)
    IN  [cfg |-> [data EXCEPT !.Controllers =
                    [l EXCEPT
                        ![ctrl].Controller.RegistrationClientURI =
                            mergeString(@, info.RegistrationClientURI),
                        ![ctrl].Controller.RegistrationAccessToken =
                            mergeString(@, info.RegistrationAccessToken)]],
         err |-> ""]

SaveClientRegistration(data, name, info) ==
    LET i == findController(data.Controllers, name)
        l == IF i = 0
             THEN Append(data.Controllers, NamedController(name, EmptyController))
             ELSE data.Controllers
        ctrl == IF i = 0 THEN Len(l) ELSE i
    IN  [cfg |-> [data EXCEPT !.Controllers =
                    [l EXCEPT
                        ![ctrl].Controller.RegistrationClientURI =
                            mergeString(@, info.RegistrationClientURI),
                        ![ctrl].Controller.RegistrationAccessToken =
                            mergeString(@, info.RegistrationAccessToken)]],
         err |-> ""]

\* ApplyCurrentContext assigning the supplied references, empty ones included
ApplyCurrentContextAssign(data, contextName, serverName, authorizationName, clusterName) ==
    LET i == findContext(data.Contexts, contextName)
        l == IF i = 0
             THEN Append(data.Contexts, NamedContext(contextName, EmptyContext))
             ELSE data.Contexts
        ctx == IF i = 0 THEN Len(l) ELSE i
    IN  [cfg |-> [data EXCEPT
                    !.CurrentContext = mergeString(@, contextName),
                    !.Contexts = [l EXCEPT
                        ![ctx].Context.Server = serverName,
                        ![ctx].Context.Authorization = authorizationName,
                        ![ctx].Context.Cluster = clusterName]],
         err |-> ""]

ApplyCurrentContext(data, contextName, serverName, authorizationName, clusterName) ==
    LET i == findContext(data.Contexts, contextName)
        l == IF i = 0
             THEN Append(data.Contexts, NamedContext(contextName, EmptyContext))
             ELSE data.Contexts
        ctx == IF i = 0 THEN Len(l) ELSE i
    IN  [cfg |-> [data EXCEPT
                    !.CurrentContext = mergeString(@, contextName),
                    !.Contexts = [l EXCEPT
                        ![ctx].Context.Server = mergeString(@, serverName),
                        ![ctx].Context.Authorization = mergeString(@, authorizationName),
                        ![ctx].Context.Cluster = mergeString(@, clusterName)]],
         err |-> ""]

\* strings.ToLower on the environment names the model supplies
ToLower(s) ==
    CASE s = "PROD" -> "prod"
      [] s = "Production" -> "production"
      [] s = "Stage" -> "stage"
      [] s = "STAGING" -> "staging"
      [] s = "DEV" -> "dev"
      [] s = "Development" -> "development"
      [] s = "Bogus" -> "bogus"
      [] OTHER -> s

\* SetExecutionEnvironment storing the production value like any other
SetExecutionEnvironmentPersist(data, env) ==
    LET l == ToLower(env)
        e == CASE env = "" -> ""
               [] l \in {"production", "prod"} -> environmentProduction
               [] l \in {"staging", "stage"} -> environmentStaging
               [] l \in {"development", "dev"} -> environmentDevelopment
               [] OTHER -> "?"
    IN  IF e = "?" THEN [cfg |-> data, err |-> "unknown environment"]
        ELSE [cfg |-> [data EXCEPT !.Environment = mergeString(@, e)], err |-> ""]

SetExecutionEnvironment(data, env) ==
    LET l == ToLower(env)
        e == CASE env = "" -> ""
               [] l \in {"production", "prod"} -> environmentProduction
               [] l \in {"staging", "stage"} -> environmentStaging
               [] l \in {"development", "dev"} -> environmentDevelopment
               [] OTHER -> "?"
        merged == [data EXCEPT !.Environment = mergeString(@, e)]
    IN  IF e = "?" THEN [cfg |-> data, err |-> "unknown environment"]
        ELSE [cfg |-> IF merged.Environment = environmentProduction
                      THEN [merged EXCEPT !.Environment = ""]
                      ELSE merged,
              err |-> ""]

setClusterProperty(data, clusterName, name, value) ==
    LET cstr == findCluster(data.Clusters, clusterName)
    IN  IF cstr = 0 THEN [cfg |-> data, err |-> "unknown cluster"]
        ELSE CASE name = "context" ->
                    [cfg |-> [data EXCEPT !.Clusters[cstr].Cluster.Context = value], err |-> ""]
               [] name = "bin" ->
                    [cfg |-> [data EXCEPT !.Clusters[cstr].Cluster.Bin = value], err |-> ""]
               [] name = "controller" ->
                    [cfg |-> [data EXCEPT !.Clusters[cstr].Cluster.Controller = value], err |-> ""]
               [] OTHER -> [cfg |-> data, err |-> "unknown config property"]

\* setContextProperty assigning the value without looking it up
setContextPropertyUnchecked(data, contextName, name, value) ==
    LET ctx == findContext(data.Contexts, contextName)
    IN  IF ctx = 0 THEN [cfg |-> data, err |-> "unknown context"]
        ELSE CASE name = "server" ->
                    [cfg |-> [data EXCEPT !.Contexts[ctx].Context.Server = value], err |-> ""]
               [] name = "authorization" ->
                    [cfg |-> [data EXCEPT !.Contexts[ctx].Context.Authorization = value],
                     err |-> ""]
               [] name = "cluster" ->
                    [cfg |-> [data EXCEPT !.Contexts[ctx].Context.Cluster = value], err |-> ""]
               [] OTHER -> [cfg |-> data, err |-> "unknown config property"]

setContextProperty(data, contextName, name, value) ==
    LET ctx == findContext(data.Contexts, contextName)
    IN  IF ctx = 0 THEN [cfg |-> data, err |-> "unknown context"]
        ELSE CASE name = "server" ->
                    IF findServer(data.Servers, value) = 0
                    THEN [cfg |-> data, err |-> "unknown reference"]
                    ELSE [cfg |-> [data EXCEPT !.Contexts[ctx].Context.Server = value], err |-> ""]
               [] name = "authorization" ->
                    IF findAuthorization(data.Authorizations, value) = 0
                    THEN [cfg |-> data, err |-> "unknown reference"]
                    ELSE [cfg |-> [data EXCEPT !.Contexts[ctx].Context.Authorization = value],
                          err |-> ""]
               [] name = "cluster" ->
                    IF findCluster(data.Clusters, value) = 0
                    THEN [cfg |-> data, err |-> "unknown reference"]
                    ELSE [cfg |-> [data EXCEPT !.Contexts[ctx].Context.Cluster = value], err |-> ""]
               [] OTHER -> [cfg |-> data, err |-> "unknown config property"]

\* SetProperty taking any third segment of a controller path for "env"
SetPropertyAnyController(data, path, value) ==
    IF path = <<"env">> THEN {SetExecutionEnvironment(data, value)}
    ELSE CASE path[1] = "current-context" ->
                {[cfg |-> [data EXCEPT !.CurrentContext = value], err |-> ""]}
           [] path[1] = "cluster" /\ Len(path) = 3 ->
                {setClusterProperty(data, path[2], path[3], value)}
           [] path[1] = "controller" /\ Len(path) = 4 ->
                {[cfg |-> c, err |-> ""]
                 : c \in mergeControllers(data,
                            <<NamedController(path[2],
                                [EmptyController EXCEPT
                                    !.Env = <<[Name |-> path[4], Value |-> value]>>])>>)}
           [] path[1] = "context" /\ Len(path) = 3 ->
                {setContextProperty(data, path[2], path[3], value)}
           [] OTHER -> {[cfg |-> data, err |-> "unknown config property"]}

\* SetProperty(name, value): path is strings.Split(name, "."), so the name
\* "cluster.a.bin" is <<"cluster", "a", "bin">> and the name "env" is <<"env">>
SetProperty(data, path, value) ==
    IF path = <<"env">> THEN {SetExecutionEnvironment(data, value)}
    ELSE CASE path[1] = "current-context" ->
                {[cfg |-> [data EXCEPT !.CurrentContext = value], err |-> ""]}
           [] path[1] = "cluster" /\ Len(path) = 3 ->
                {setClusterProperty(data, path[2], path[3], value)}
           [] path[1] = "controller" /\ Len(path) = 4 /\ path[3] = "env" ->
                {[cfg |-> c, err |-> ""]
                 : c \in mergeControllers(data,
                            <<NamedController(path[2],
                                [EmptyController EXCEPT
                                    !.Env = <<[Name |-> path[4], Value |-> value]>>])>>)}
           [] path[1] = "context" /\ Len(path) = 3 ->
                {setContextProperty(data, path[2], path[3], value)}
           [] OTHER -> {[cfg |-> data, err |-> "unknown config property"]}

(***************************************************************************)
(* Inputs of the changes: the configs a change can be applied to, each     *)
(* family varying the collections some of the changes read, and the        *)
(* arguments of the change constructors.                                   *)
(***************************************************************************)
ChangeNames == {"a", "b"}

ServerAuthorizationConfigs ==
    {[EmptyConfig EXCEPT !.Servers = s, !.Authorizations = a]
     : s \in {<<>>,
              <<NamedServer("a", mkServer("p", ""))>>,
              <<NamedServer("b", mkServer("", "r")), NamedServer("a", mkServer("p", ""))>>},
       a \in {<<>>,
              <<NamedAuthorization("a", [Credential |-> mkToken("t0", "bearer")])>>,
              <<NamedAuthorization("b", [Credential |-> mkClient("c0", "s0")])>>,
              <<NamedAuthorization("b", [Credential |-> mkClient("c0", "s0")]),
                NamedAuthorization("a", [Credential |-> mkToken("t0", "bearer")])>>}}

ContextConfigs ==
    {[EmptyConfig EXCEPT !.Contexts = c, !.Servers = r[1], !.Authorizations = r[2],
                         !.Clusters = r[3], !.CurrentContext = cc]
     : c \in {<<>>,
              <<NamedContext("a", mkContext("p", ""))>>,
              <<NamedContext("b", mkContext("", "r")), NamedContext("a", mkContext("p", ""))>>},
       r \in {<<<<>>, <<>>, <<>>>>,
              <<<<NamedServer("a", EmptyServer)>>,
                <<NamedAuthorization("a", EmptyAuthorization)>>,
                <<NamedCluster("a", EmptyCluster)>>>>},
       cc \in {"", "b"}}

ClusterControllerConfigs ==
    {[EmptyConfig EXCEPT !.Clusters = c, !.Controllers = k]
     : c \in {<<>>, <<NamedCluster("a", mkCluster("p", ""))>>},
       k \in {<<>>,
              <<NamedController("a", mkController("p", "", <<[Name |-> "A", Value |-> "1"]>>))>>,
              <<NamedController("b", mkController("", "r", <<>>)),
                NamedController("a", mkController("p", "", ExampleBaseEnv))>>}}

EnvironmentConfigs ==
    {[EmptyConfig EXCEPT !.Environment = e]
     : e \in {"", environmentProduction, environmentStaging, environmentDevelopment}}

UpdateConfigs ==
    ServerAuthorizationConfigs \cup ContextConfigs \cup ClusterControllerConfigs
        \cup EnvironmentConfigs

\* arguments of SaveServer
SavedServers == {mkServer("q", ""), mkServer("", "s")}
SavedEnvironments == {environmentProduction, environmentStaging, "bogus"}

\* arguments of SaveToken: oauth2.Token values
Tokens ==
    {[AccessToken |-> "t1", TokenType |-> "bearer", RefreshToken |-> "r1", Expiry |-> 7],
     [AccessToken |-> "t2", TokenType |-> "", RefreshToken |-> "", Expiry |-> 0]}

\* arguments of SaveClientRegistration: registration.ClientInformationResponse values
Registrations ==
    {[RegistrationClientURI |-> "u", RegistrationAccessToken |-> "k"],
     [RegistrationClientURI |-> "", RegistrationAccessToken |-> "k"]}

\* arguments of ApplyCurrentContext: serverName, authorizationName, clusterName
References == {<<"", "", "">>, <<"s", "", "">>, <<"", "z", "c">>, <<"s", "z", "c">>}

\* arguments of SetExecutionEnvironment
EnvironmentNames ==
    {"", "production", "prod", "PROD", "Production", "staging", "stage", "Stage", "STAGING",
     "development", "dev", "DEV", "bogus", "Bogus"}

\* arguments of SetProperty: the names, split at the dots, and the values
PropertyPaths ==
    {<<"env">>, <<"current-context">>, <<"">>, <<"bogus", "a", "b">>,
     <<"cluster", "a", "bin">>, <<"cluster", "a", "context">>, <<"cluster", "a", "controller">>,
     <<"cluster", "b", "bin">>, <<"cluster", "a", "bogus">>, <<"cluster", "a">>,
     <<"controller", "a", "env", "A">>, <<"controller", "a", "env", "C">>,
     <<"controller", "b", "env", "A">>, <<"controller", "a", "bin", "A">>,
     <<"controller", "a">>,
     <<"context", "a", "server">>, <<"context", "a", "authorization">>,
     <<"context", "a", "cluster">>, <<"context", "b", "server">>,
     <<"context", "a", "bogus">>, <<"context", "a", "server", "x">>,
     <<"context", "b", "bogus">>, <<"current-context", "x">>, <<"env", "x">>}

PropertyValues == {"", "a", "nosuch", "stage"}

(***************************************************************************)
(* The changes as a state machine: OptimizeConfig.Update applies a change  *)
(* to the loaded data, which the change mutates in place; SaveServer is    *)
(* also applied to the data SaveToken has left.  pre is the data before    *)
(* the last change, arg its arguments, err its error, pc.i the number of   *)
(* changes applied.                                                        *)
(***************************************************************************)
InitUpdate ==
    /\ cfg \in UpdateConfigs
    /\ pre = cfg
    /\ op = "init"
    /\ arg = <<>>
    /\ err = ""
    /\ pc = [at |-> "update", i |-> 0, pass |-> 0]

\* the change named o with arguments a has returned r
Applied(o, a, r) ==
    /\ cfg' = r.cfg
    /\ err' = r.err
    /\ pre' = cfg
    /\ op' = o
    /\ arg' = a
    /\ pc' = [pc EXCEPT !.i = pc.i + 1]

UpdateSaveServer ==
    /\ op \in {"init", "SaveToken"}
    /\ \E name \in ChangeNames, srv \in SavedServers, env \in SavedEnvironments :
          \E r \in SaveServer(cfg, name, srv, env) :
              Applied("SaveServer", [name |-> name, srv |-> srv, env |-> env], r)

UpdateSaveToken ==
    /\ op = "init"
    /\ \E name \in ChangeNames, t \in Tokens :
          Applied("SaveToken", [name |-> name, t |-> t], SaveToken(cfg, name, t))

UpdateSaveClientRegistration ==
    /\ op = "init"
    /\ \E name \in ChangeNames, info \in Registrations :
          Applied("SaveClientRegistration", [name |-> name, info |-> info],
                  SaveClientRegistration(cfg, name, info))

UpdateApplyCurrentContext ==
    /\ op = "init"
    /\ \E contextName \in ChangeNames, r \in References :
          Applied("ApplyCurrentContext",
                  [contextName |-> contextName, serverName |-> r[1],
                   authorizationName |-> r[2], clusterName |-> r[3]],
                  ApplyCurrentContext(cfg, contextName, r[1], r[2], r[3]))

UpdateSetExecutionEnvironment ==
    /\ op = "init"
    /\ \E env \in EnvironmentNames :
          Applied("SetExecutionEnvironment", [env |-> env], SetExecutionEnvironment(cfg, env))

UpdateSetProperty ==
    /\ op = "init"
    /\ \E path \in PropertyPaths, value \in PropertyValues :
          \E r \in SetProperty(cfg, path, value) :
              Applied("SetProperty", [name |-> path, value |-> value], r)

NextUpdate ==
    \/ UpdateSaveServer
    \/ UpdateSaveToken
    \/ UpdateSaveClientRegistration
    \/ UpdateApplyCurrentContext
    \/ UpdateSetExecutionEnvironment
    \/ UpdateSetProperty

SpecUpdate == InitUpdate /\ [][NextUpdate]_vars

(***************************************************************************)
(* Properties of the changes.  After a change, pre is the data before it,  *)
(* arg its arguments, cfg the data it left and err its error.              *)
(***************************************************************************)
\* the body of the first entry of l named n, or the zero body when there is none
BodyOr(l, n, fld, zero) == IF FirstIndex(l, n) = 0 THEN zero ELSE l[FirstIndex(l, n)][fld]

\* the positions of identifier, issuer and base URL among the scalars of a server
RootFields == <<1, 7, 14>>

\* what C14 says the scalars of the saved server are: the field-level merge of srv
\* over the previous server, the empty root fields filled from the table of env
C14_Expected(prev, srv, env) ==
    LET b == Scalars("Server", prev)
        o == Scalars("Server", srv)
        m == [f \in DOMAIN b |-> IF o[f] # "" THEN o[f] ELSE b[f]]
    IN  [f \in DOMAIN m |->
            IF m[f] = "" /\ \E k \in 1..3 : RootFields[k] = f
            THEN RootTable(env)[CHOOSE k \in 1..3 : RootFields[k] = f]
            ELSE m[f]]

\* every entry of list l1 but the one at position j is in place, unchanged, in l2,
\* and l2 has one more entry exactly when j is 0
OthersKept(l1, l2, j) ==
    /\ Len(l2) = Len(l1) + (IF j = 0 THEN 1 ELSE 0)
    /\ \A k \in DOMAIN l1 : k # j => l2[k] = l1[k]

\* C14: when SaveServer(name, srv, env) succeeds, the server named name has the
\* fields of the field-level merge of srv over the previous server of that name,
\* its empty identifier, issuer and base URL filled from env's table; an
\* authorization named name exists, created empty if it was absent, and the
\* authorizations that existed are unchanged, credentials included; the other
\* servers, the clusters, controllers, contexts and scalars are unchanged.
C14_SaveServer ==
    op = "SaveServer" /\ err = "" =>
        LET j == FirstIndex(pre.Servers, arg.name)
            i == FirstIndex(cfg.Servers, arg.name)
            a == FirstIndex(pre.Authorizations, arg.name)
        IN  /\ i # 0
            /\ Scalars("Server", cfg.Servers[i].Server)
                  = C14_Expected(BodyOr(pre.Servers, arg.name, "Server", EmptyServer),
                                 arg.srv, arg.env)
            /\ OthersKept(pre.Servers, cfg.Servers, j)
            /\ OthersKept(pre.Authorizations, cfg.Authorizations, 0) \/ a # 0
            /\ a # 0 => cfg.Authorizations = pre.Authorizations
            /\ a = 0 => cfg.Authorizations[Len(cfg.Authorizations)]
                            = NamedAuthorization(arg.name, EmptyAuthorization)
            /\ cfg.Clusters = pre.Clusters
            /\ cfg.Controllers = pre.Controllers
            /\ cfg.Contexts = pre.Contexts
            /\ cfg.CurrentContext = pre.CurrentContext
            /\ cfg.Environment = pre.Environment

\* C15: when SaveServer(name, srv, env) succeeds, the fields of the server named
\* name are those of srv, its empty identifier, issuer and base URL filled from
\* env's table: a server that existed is overwritten, and no value of the
\* previous server survives in a field srv leaves empty.
C15_Overwritten ==
    op = "SaveServer" /\ err = "" =>
        LET i == FirstIndex(cfg.Servers, arg.name)
        IN  /\ i # 0
            /\ Scalars("Server", cfg.Servers[i].Server)
                  = C14_Expected(EmptyServer, arg.srv, arg.env)

\* the changes of update.go
Changes ==
    {"SaveServer", "SaveToken", "SaveClientRegistration", "ApplyCurrentContext",
     "SetExecutionEnvironment", "SetProperty"}

\* C16: a change that returns an error leaves the Config as it was before the
\* change was applied.
C16_Atomic == op \in Changes /\ err # "" => cfg = pre

\* C17: SaveToken(name, t) returns nil; afterwards the first authorization named
\* name holds a token credential with t's access token, token type, refresh
\* token and expiry and no client credential; one authorization is appended if
\* none had that name and the length is unchanged otherwise; every other
\* authorization and every other part of the Config is unchanged.
C17_SaveToken ==
    op = "SaveToken" =>
        LET j == FirstIndex(pre.Authorizations, arg.name)
            i == FirstIndex(cfg.Authorizations, arg.name)
        IN  /\ err = ""
            /\ i # 0
            /\ j # 0 => i = j
            /\ cfg.Authorizations[i].Authorization.Credential.TokenCredential = <<arg.t>>
            /\ cfg.Authorizations[i].Authorization.Credential.ClientCredential = <<>>
            /\ OthersKept(pre.Authorizations, cfg.Authorizations, j)
            /\ [cfg EXCEPT !.Authorizations = <<>>] = [pre EXCEPT !.Authorizations = <<>>]

C17_Witness ==
    /\ op = "SaveToken"
    /\ Len(pre.Authorizations) = 2
    /\ pre.Authorizations[1].Name = arg.name
    /\ pre.Authorizations[1].Authorization.Credential.ClientCredential # <<>>
    /\ cfg.Authorizations[1].Authorization.Credential.TokenCredential[1].AccessToken = "t1"
    /\ cfg.Authorizations[1].Authorization.Credential.TokenCredential[1].Expiry = 7
    /\ cfg.Authorizations[2] = pre.Authorizations[2]

\* C18: after ApplyCurrentContext(contextName, server, authorization, cluster)
\* with a non-empty contextName a context named contextName exists, appended if
\* it was absent; each of its references is the supplied value when that is
\* non-empty and its previous value otherwise; CurrentContext is contextName;
\* no other context and no other part of the Config is changed.
C18_ApplyCurrentContext ==
    op = "ApplyCurrentContext" /\ arg.contextName # "" =>
        LET j == FirstIndex(pre.Contexts, arg.contextName)
            i == FirstIndex(cfg.Contexts, arg.contextName)
            was == BodyOr(pre.Contexts, arg.contextName, "Context", EmptyContext)
        IN  /\ err = ""
            /\ i # 0
            /\ j # 0 => i = j
            /\ cfg.Contexts[i].Context
                  = [Server |-> IF arg.serverName # "" THEN arg.serverName ELSE was.Server,
                     Authorization |-> IF arg.authorizationName # "" THEN arg.authorizationName
                                       ELSE was.Authorization,
                     Cluster |-> IF arg.clusterName # "" THEN arg.clusterName ELSE was.Cluster]
            /\ cfg.CurrentContext = arg.contextName
            /\ OthersKept(pre.Contexts, cfg.Contexts, j)
            /\ [cfg EXCEPT !.Contexts = <<>>, !.CurrentContext = ""]
                  = [pre EXCEPT !.Contexts = <<>>, !.CurrentContext = ""]

C18_Witness ==
    /\ op = "ApplyCurrentContext"
    /\ arg.contextName = "a"
    /\ Len(pre.Contexts) = 2
    /\ pre.CurrentContext = "b"
    /\ arg.serverName = ""
    /\ arg.authorizationName = "z"
    /\ cfg.Contexts[2].Context = [Server |-> "p", Authorization |-> "z", Cluster |-> "c"]
    /\ cfg.CurrentContext = "a"

\* the spellings of each environment among the arguments of the model
ProductionAliases == {"production", "prod", "PROD", "Production"}
StagingAliases == {"staging", "stage", "Stage", "STAGING"}
DevelopmentAliases == {"development", "dev", "DEV", "Development"}

\* C19: SetExecutionEnvironment accepts production/prod, staging/stage and
\* development/dev in any case and stores the canonical staging or development
\* value; any other non-empty string fails and leaves the stored environment
\* unchanged; after a successful application the stored environment is never
\* the production value: a production spelling such as "PROD" leaves it empty.
C19_Environment ==
    op = "SetExecutionEnvironment" =>
        /\ arg.env \in ProductionAliases => err = "" /\ cfg.Environment = ""
        /\ arg.env \in StagingAliases => err = "" /\ cfg.Environment = environmentStaging
        /\ arg.env \in DevelopmentAliases => err = "" /\ cfg.Environment = environmentDevelopment
        /\ arg.env \notin ProductionAliases \cup StagingAliases \cup DevelopmentAliases \cup {""}
              => err # "" /\ cfg.Environment = pre.Environment
        /\ err = "" => cfg.Environment # environmentProduction
        /\ [cfg EXCEPT !.Environment = ""] = [pre EXCEPT !.Environment = ""]

C19_Witness ==
    /\ op = "SetExecutionEnvironment"
    /\ arg.env = "PROD"
    /\ pre.Environment = environmentStaging
    /\ err = ""
    /\ cfg.Environment = ""

\* C20: SetExecutionEnvironment("") on a Config whose stored environment is
\* staging or development leaves the stored environment empty.
C20_EmptyUnsets ==
    /\ op = "SetExecutionEnvironment"
    /\ arg.env = ""
    /\ pre.Environment \in {environmentStaging, environmentDevelopment}
    => err = "" /\ cfg.Environment = ""

\* the last change was SetProperty on field f of the collection named first
PropertyOf(first, fields) ==
    /\ op = "SetProperty"
    /\ Len(arg.name) = 3
    /\ arg.name[1] = first
    /\ arg.name[3] \in fields

\* the collection a reference field of a context points into
TargetOf(field) ==
    CASE field = "server" -> pre.Servers
      [] field = "authorization" -> pre.Authorizations
      [] field = "cluster" -> pre.Clusters

\* the errors for a name that is absent from the collection it is looked up in
UnknownReference == {"unknown context", "unknown cluster", "unknown reference"}

\* the references of context c with reference field replaced by v
WithReference(c, field, v) ==
    CASE field = "server" -> [c EXCEPT !.Server = v]
      [] field = "authorization" -> [c EXCEPT !.Authorization = v]
      [] field = "cluster" -> [c EXCEPT !.Cluster = v]

\* C21: SetProperty("context.<name>.<field>", value) with field server,
\* authorization or cluster returns nil only if value names an entry of the
\* field's collection; if it names none the change returns an unknown-reference
\* error and the Config is unchanged; if the change returns nil, that reference
\* of the first context of that name is value and nothing else has changed.
C21_ContextProperty ==
    PropertyOf("context", {"server", "authorization", "cluster"}) =>
        LET i == FirstIndex(pre.Contexts, arg.name[2])
        IN  /\ err = "" => i # 0 /\ arg.value \in NamesOf(TargetOf(arg.name[3]))
            /\ arg.value \notin NamesOf(TargetOf(arg.name[3])) =>
                  err \in UnknownReference /\ cfg = pre
            /\ err # "" => cfg = pre
            /\ err = "" =>
                  cfg = [pre EXCEPT !.Contexts[i].Context =
                            WithReference(@, arg.name[3], arg.value)]

C21_Witness ==
    /\ PropertyOf("context", {"server"})
    /\ arg.name[2] = "a"
    /\ arg.value = "nosuch"
    /\ FirstIndex(pre.Contexts, "a") = 2
    /\ pre.Servers # <<>>
    /\ err = "unknown reference"
    /\ cfg = pre

\* the grammar of property names as C22 states it
InGrammar(path) ==
    \/ path = <<"current-context">>
    \/ Len(path) = 3 /\ path[1] = "cluster" /\ path[3] \in {"context", "bin", "controller"}
    \/ Len(path) = 4 /\ path[1] = "controller" /\ path[3] = "env"
    \/ Len(path) = 3 /\ path[1] = "context" /\ path[3] \in {"server", "authorization", "cluster"}

\* C22 as stated: SetProperty with a name outside the grammar current-context,
\* cluster.<name>.<field>, controller.<name>.env.<var>, context.<name>.<field>
\* returns an unknown-property error and leaves the Config unchanged.
C22_FixedGrammar ==
    op = "SetProperty" /\ ~InGrammar(arg.name) =>
        err = "unknown config property" /\ cfg = pre

\* the names SetProperty takes: those of the grammar, the name env, and every
\* name whose first segment is current-context
Accepted(path) == InGrammar(path) \/ path = <<"env">> \/ path[1] = "current-context"

\* the last change named a field of a cluster or context that does not exist
FieldOfMissing ==
    /\ Len(arg.name) = 3
    /\ \/ arg.name[1] = "cluster" /\ arg.name[2] \notin NamesOf(pre.Clusters)
                                  /\ err = "unknown cluster"
       \/ arg.name[1] = "context" /\ arg.name[2] \notin NamesOf(pre.Contexts)
                                  /\ err = "unknown context"

\* C22 (amended): the name env is applied as SetExecutionEnvironment and every
\* name whose first segment is current-context sets CurrentContext; any name
\* outside these and the grammar fails and leaves the Config unchanged, with an
\* unknown-property error, or with an unknown cluster or context error when it
\* names a field of a cluster or context that does not exist.
C22_Grammar ==
    op = "SetProperty" =>
        /\ ~Accepted(arg.name) =>
              /\ err = "unknown config property" \/ FieldOfMissing
              /\ cfg = pre
        /\ arg.name = <<"env">> =>
              [cfg |-> cfg, err |-> err] = SetExecutionEnvironment(pre, arg.value)
        /\ arg.name[1] = "current-context" =>
              err = "" /\ cfg = [pre EXCEPT !.CurrentContext = arg.value]

C22_Witness ==
    /\ op = "SetProperty"
    /\ arg.name = <<"cluster", "a", "bogus">>
    /\ "a" \in NamesOf(pre.Clusters)
    /\ err = "unknown config property"
    /\ cfg = pre

(***************************************************************************)
(* The file loader.  The process environment is the record env of the      *)
(* values of HOME, XDG_CONFIG_HOME and XDG_CONFIG_DIRS, the latter as the  *)
(* list filepath.SplitList makes of it (<<>> for the empty string), and    *)
(* the file system is the set of the names of the files that exist.        *)
(***************************************************************************)
xdgConfigHomeDefault == ".config"
xdgConfigDirsDefault == "/etc/xdg"

\* the directories the model knows, one of them written with a trailing slash
Directories == {"/home/u/.config", "/etc/xdg", "/opt/etc/"}

\* filepath.Clean on a directory of the model
CleanDir(dir) == IF dir = "/opt/etc/" THEN "/opt/etc" ELSE dir

\* filepath.Join(dir, name)
PathJoin(dir, name) == IF dir = "" THEN name ELSE CleanDir(dir) \o "/" \o name

\* the loop of configFilename over dirs from position i on: the first file that
\* exists, or current when there is none
RECURSIVE firstExisting(_, _, _, _, _)
firstExisting(dirs, i, name, files, current) ==
    IF i > Len(dirs) THEN current
    ELSE IF PathJoin(dirs[i], name) \in files THEN PathJoin(dirs[i], name)
         ELSE firstExisting(dirs, i + 1, name, files, current)

\* configFilename returning the file it found as the place to write to
configFilenameInPlace(env, files, name) ==
    LET home == IF env.HOME = "" THEN "~" ELSE env.HOME
        xdgConfigHome == IF env.XDG_CONFIG_HOME = "" THEN PathJoin(home, xdgConfigHomeDefault)
                         ELSE env.XDG_CONFIG_HOME
        xdgConfigDirs == IF env.XDG_CONFIG_DIRS = <<>> THEN <<xdgConfigDirsDefault>>
                         ELSE env.XDG_CONFIG_DIRS
        userConfigFilename == PathJoin(xdgConfigHome, name)
        found == firstExisting(<<xdgConfigHome>> \o xdgConfigDirs, 1, name, files,
                               userConfigFilename)
    IN  [current |-> found, user |-> found]

\* configFilename: the current file and the file changes are written to
configFilename(env, files, name) ==
    LET home == IF env.HOME = "" THEN "~" ELSE env.HOME
        xdgConfigHome == IF env.XDG_CONFIG_HOME = "" THEN PathJoin(home, xdgConfigHomeDefault)
                         ELSE env.XDG_CONFIG_HOME
        xdgConfigDirs == IF env.XDG_CONFIG_DIRS = <<>> THEN <<xdgConfigDirsDefault>>
                         ELSE env.XDG_CONFIG_DIRS
        userConfigFilename == PathJoin(xdgConfigHome, name)
    IN  [current |-> firstExisting(<<xdgConfigHome>> \o xdgConfigDirs, 1, name, files,
                                   userConfigFilename),
         user |-> userConfigFilename]

\* what file.read decodes from the file named f: a document that names its file
FileData(f) == [EmptyConfig EXCEPT !.CurrentContext = f]

(***************************************************************************)
(* fileLoader and file.write as a state machine.  arg is the environment,  *)
(* the existing files and the Filename the OptimizeConfig was given; after *)
(* fileLoader pre is [filename |-> the file read, Filename |-> the file to *)
(* write to] and cfg the data merged from the file.                        *)
(***************************************************************************)
MaxDirs == 2

FileNames == {PathJoin(d, "stormforge/config") : d \in Directories \cup {"/home/u/.xdg"}}

InitFile ==
    /\ cfg = EmptyConfig
    /\ arg \in [HOME : {"", "/home/u"},
                XDG_CONFIG_HOME : {"", "/home/u/.xdg", "/etc/xdg"},
                XDG_CONFIG_DIRS : SeqsUpTo(Directories \ {"/home/u/.config"}, MaxDirs),
                Files : SUBSET FileNames,
                Filename : {"", "/tmp/config"}]
    /\ pre = [filename |-> "", Filename |-> arg.Filename]
    /\ op = "init"
    /\ err = ""
    /\ pc = [at |-> "file", i |-> 0, pass |-> 0]

FileLoader ==
    /\ op = "init"
    /\ LET names == configFilename(arg, arg.Files, "stormforge/config")
           f == IF arg.Filename = "" THEN [filename |-> names.current, Filename |-> names.user]
                ELSE [filename |-> arg.Filename, Filename |-> arg.Filename]
       IN  /\ pre' = f
           /\ cfg' \in IF f.filename \in arg.Files THEN mergeConfig(cfg, FileData(f.filename))
                       ELSE {cfg}
    /\ op' = "fileLoader"
    /\ err' = ""
    /\ UNCHANGED <<arg, pc>>

\* file.write with the Filename fileLoader left in the OptimizeConfig
Write ==
    /\ op = "fileLoader"
    /\ arg' = [arg EXCEPT !.Files = @ \cup {pre.Filename}]
    /\ op' = "write"
    /\ UNCHANGED <<cfg, pre, err, pc>>

NextFile == FileLoader \/ Write

SpecFile == InitFile /\ [][NextFile]_vars

\* the XDG_CONFIG_HOME directory as C23 resolves it
ResolvedConfigHome ==
    IF arg.XDG_CONFIG_HOME # "" THEN arg.XDG_CONFIG_HOME
    ELSE IF arg.HOME # "" THEN arg.HOME \o "/.config" ELSE "~/.config"

\* the directories C23 searches, in order
SearchPath ==
    <<ResolvedConfigHome>> \o
        (IF arg.XDG_CONFIG_DIRS = <<>> THEN <<"/etc/xdg">> ELSE arg.XDG_CONFIG_DIRS)

\* the file of directory dir
ConfigIn(dir) == CleanDir(dir) \o "/stormforge/config"

\* C23: when the file name is resolved, the file to write to is the one under
\* the resolved XDG_CONFIG_HOME, and the file read is the first file that
\* exists in XDG_CONFIG_HOME and then the XDG_CONFIG_DIRS directories in order,
\* or the file to write to when none exists; a write never creates or replaces
\* a file outside the resolved XDG_CONFIG_HOME.
C23_PathResolution ==
    arg.Filename = "" =>
        /\ op = "fileLoader" =>
              /\ pre.Filename = ConfigIn(ResolvedConfigHome)
              /\ \/ /\ \A k \in DOMAIN SearchPath : ConfigIn(SearchPath[k]) \notin arg.Files
                    /\ pre.filename = pre.Filename
                    /\ cfg = EmptyConfig
                 \/ \E k \in DOMAIN SearchPath :
                       /\ pre.filename = ConfigIn(SearchPath[k])
                       /\ pre.filename \in arg.Files
                       /\ \A j \in 1..(k - 1) : ConfigIn(SearchPath[j]) \notin arg.Files
                       /\ cfg.CurrentContext = pre.filename
        /\ op = "write" => pre.Filename = ConfigIn(ResolvedConfigHome)

C23_Witness ==
    /\ op = "write"
    /\ arg.Filename = ""
    /\ arg.XDG_CONFIG_HOME = ""
    /\ arg.HOME = "/home/u"
    /\ arg.XDG_CONFIG_DIRS = <<"/opt/etc/", "/etc/xdg">>
    /\ pre.filename = "/etc/xdg/stormforge/config"
    /\ cfg.CurrentContext = "/etc/xdg/stormforge/config"
    /\ pre.Filename = "/home/u/.config/stormforge/config"
    /\ arg.Files = {"/etc/xdg/stormforge/config", "/home/u/.config/stormforge/config"}

(***************************************************************************)
(* Credential JSON.  A JSON object is the sequence of its members, each a  *)
(* key and a value; a value is a string or, for an access token rendered   *)
(* as its claims, an object.  Times are milliseconds after the zero Time,  *)
(* 0 being the zero Time; the RFC 3339 text of a time has whole seconds.   *)
(***************************************************************************)
\* the JSON string s / the JSON string that is the RFC 3339 text of second n /
\* the JSON object of the claims of the token s
Str(s) == [kind |-> "string", s |-> s, n |-> 0]
Timestamp(n) == [kind |-> "string", s |-> "RFC3339", n |-> n]
Claims(s) == [kind |-> "object", s |-> s, n |-> 0]

Member(k, v) == [key |-> k, value |-> v]

\* Time.UTC().Format(time.RFC3339)
FormatRFC3339(t) == Timestamp(t \div 1000)

\* Time.UnmarshalJSON: the time and whether the text is a timestamp
ParseRFC3339(v) ==
    IF v.s = "RFC3339" THEN [t |-> v.n * 1000, ok |-> TRUE] ELSE [t |-> 0, ok |-> FALSE]

\* jwt.ParseString succeeds on the access tokens of three dotted parts
IsJWT(s) == s = "h.p.s"

\* the members json.Marshal writes for the members ms, dropping the
\* omitempty ones that are empty
OmitEmpty(ms, omit) ==
    SelectSeq(ms, LAMBDA m : ~(m.key \in omit /\ m.value = Str("")))

\* Credential.MarshalJSON: the embedded TC's token_type and refresh_token come
\* first, then the overriding access_token (an interface, never omitted) and expiry
MarshalJSON(c, DecodeJWT) ==
    IF c.TokenCredential # <<>>
    THEN LET t == c.TokenCredential[1]
             accessToken == IF DecodeJWT /\ IsJWT(t.AccessToken) THEN Claims(t.AccessToken)
                            ELSE Str(t.AccessToken)
             expiry == IF t.Expiry = 0 THEN Str("0") ELSE FormatRFC3339(t.Expiry)
         IN  OmitEmpty(<<Member("token_type", Str(t.TokenType)),
                         Member("refresh_token", Str(t.RefreshToken)),
                         Member("access_token", accessToken),
                         Member("expiry", expiry)>>,
                       {"token_type", "refresh_token", "expiry"})
    ELSE IF c.ClientCredential # <<>>
         THEN LET k == c.ClientCredential[1]
              IN  <<Member("client_id", Str(k.ClientID)),
                    Member("client_secret", Str(k.ClientSecret)),
                    Member("scope", Str(k.Scope))>>
         ELSE <<>>

\* m[key] of the map[string]string decoded from data: "" for a missing key
Lookup(data, key) ==
    IF \E i \in DOMAIN data : data[i].key = key
    THEN data[CHOOSE i \in DOMAIN data : data[i].key = key].value
    ELSE Str("")

\* json.Unmarshal(data, c.TokenCredential) from member i on: members are stored
\* in document order and an expiry that is no timestamp ends the decoding
RECURSIVE unmarshalToken(_, _, _)
unmarshalToken(data, i, t) ==
    IF i > Len(data) THEN t
    ELSE LET k == data[i].key
             v == data[i].value
         IN  IF k = "expiry"
             THEN IF ParseRFC3339(v).ok
                  THEN unmarshalToken(data, i + 1, [t EXCEPT !.Expiry = ParseRFC3339(v).t])
                  ELSE t
             ELSE unmarshalToken(data, i + 1,
                      CASE k = "access_token" -> [t EXCEPT !.AccessToken = v.s]
                        [] k = "token_type" -> [t EXCEPT !.TokenType = v.s]
                        [] k = "refresh_token" -> [t EXCEPT !.RefreshToken = v.s]
                        [] OTHER -> t)

\* json.Unmarshal(data, c.ClientCredential)
unmarshalClient(data) ==
    [ClientID |-> Lookup(data, "client_id").s,
     ClientSecret |-> Lookup(data, "client_secret").s,
     Scope |-> Lookup(data, "scope").s]

\* UnmarshalJSON taking a client_id before an access_token
UnmarshalJSONClientFirst(c, data) ==
    IF \E i \in DOMAIN data : data[i].value.kind # "string"
    THEN [c |-> c, err |-> "json: cannot unmarshal object into Go value of type string"]
    ELSE IF Len(data) = 0 THEN [c |-> c, err |-> ""]
    ELSE IF Lookup(data, "client_id") # Str("")
         THEN [c |-> [c EXCEPT !.ClientCredential = <<unmarshalClient(data)>>], err |-> ""]
    ELSE IF Lookup(data, "access_token") # Str("")
         THEN [c |-> [c EXCEPT !.TokenCredential =
                        <<unmarshalToken(data, 1,
                            [AccessToken |-> "", TokenType |-> "", RefreshToken |-> "",
                             Expiry |-> 0])>>],
               err |-> ""]
    ELSE [c |-> c, err |-> "unknown credential"]

\* Credential.UnmarshalJSON into the credential c
UnmarshalJSON(c, data) ==
    IF \E i \in DOMAIN data : data[i].value.kind # "string"
    THEN [c |-> c, err |-> "json: cannot unmarshal object into Go value of type string"]
    ELSE IF Len(data) = 0 THEN [c |-> c, err |-> ""]
    ELSE IF Lookup(data, "access_token") # Str("")
         THEN [c |-> [c EXCEPT !.TokenCredential =
                        <<unmarshalToken(data, 1,
                            [AccessToken |-> "", TokenType |-> "", RefreshToken |-> "",
                             Expiry |-> 0])>>],
               err |-> ""]
    ELSE IF Lookup(data, "client_id") # Str("")
         THEN [c |-> [c EXCEPT !.ClientCredential = <<unmarshalClient(data)>>], err |-> ""]
    ELSE [c |-> c, err |-> "unknown credential"]

(***************************************************************************)
(* Credential inputs and the encode/decode machine                         *)
(***************************************************************************)
MaxMembers == 2

TokenCredentials ==
    [AccessToken : {"", "t", "h.p.s"}, TokenType : {"", "bearer"},
     RefreshToken : {"", "r"}, Expiry : {0, 2000, 2500}]

ClientCredentials ==
    [ClientID : {"", "c"}, ClientSecret : {"", "s"}, Scope : {"", "x"}]

Credentials ==
    {EmptyCredential}
    \cup {[EmptyCredential EXCEPT !.TokenCredential = <<t>>] : t \in TokenCredentials}
    \cup {[EmptyCredential EXCEPT !.ClientCredential = <<k>>] : k \in ClientCredentials}

Members ==
    {Member("access_token", Str("")), Member("access_token", Str("t")),
     Member("client_id", Str("")), Member("client_id", Str("c")),
     Member("client_secret", Str("s")), Member("token_type", Str("bearer")),
     Member("expiry", Str("0")), Member("expiry", Timestamp(2)),
     Member("foo", Str("x"))}

\* the documents of at most MaxMembers members with distinct keys
Objects ==
    {d \in SeqsUpTo(Members, MaxMembers) :
        \A i, j \in DOMAIN d : d[i].key = d[j].key => i = j}

InitCredential ==
    /\ cfg = EmptyCredential
    /\ arg \in [c : Credentials, DecodeJWT : BOOLEAN, data : {<<>>}]
               \cup [c : {EmptyCredential}, DecodeJWT : {FALSE}, data : Objects]
    /\ pre = <<>>
    /\ op = "init"
    /\ err = ""
    /\ pc = [at |-> "credential", i |-> 0, pass |-> 0]

\* json.Marshal of the credential
CredentialMarshal ==
    /\ op = "init"
    /\ pre' = MarshalJSON(arg.c, arg.DecodeJWT)
    /\ op' = "MarshalJSON"
    /\ UNCHANGED <<cfg, arg, err, pc>>

\* json.Unmarshal of the marshalled text into a fresh credential
CredentialRoundTrip ==
    /\ op = "MarshalJSON"
    /\ LET r == UnmarshalJSON(EmptyCredential, pre)
       IN  cfg' = r.c /\ err' = r.err
    /\ op' = "RoundTrip"
    /\ UNCHANGED <<pre, arg, pc>>

\* json.Unmarshal of a document into a fresh credential
CredentialUnmarshal ==
    /\ op = "init"
    /\ LET r == UnmarshalJSON(EmptyCredential, arg.data)
       IN  cfg' = r.c /\ err' = r.err
    /\ op' = "UnmarshalJSON"
    /\ UNCHANGED <<pre, arg, pc>>

NextCredential == CredentialMarshal \/ CredentialRoundTrip \/ CredentialUnmarshal

SpecCredential == InitCredential /\ [][NextCredential]_vars

(***************************************************************************)
(* Credential properties                                                   *)
(***************************************************************************)
\* C24: with DecodeJWT off, marshalling a credential and unmarshalling the
\* result into a fresh credential succeeds and yields an equal credential
C24_RoundTrip ==
    (op = "RoundTrip" /\ ~arg.DecodeJWT) => (err = "" /\ cfg = arg.c)

HasMember(d, k) == \E i \in DOMAIN d : d[i].key = k /\ d[i].value # Str("")

MaxChanges == 2

SequenceConfigs ==
    {EmptyConfig,
     [EmptyConfig EXCEPT
        !.Servers = <<NamedServer("a", mkServer("p", ""))>>,
        !.Authorizations = <<NamedAuthorization("a", [Credential |-> mkToken("t0", "bearer")]),
                             NamedAuthorization("b", [Credential |-> mkClient("c0", "s0")])>>,
        !.Clusters = <<NamedCluster("a", mkCluster("p", ""))>>,
        !.Controllers = <<NamedController("a", mkController("p", "", <<[Name |-> "A", Value |-> "1"]>>))>>,
        !.Contexts = <<NamedContext("a", mkContext("p", ""))>>],
     [EmptyConfig EXCEPT
        !.Servers = <<NamedServer("b", mkServer("", "r")), NamedServer("a", mkServer("p", ""))>>,
        !.Authorizations = <<NamedAuthorization("b", EmptyAuthorization)>>,
        !.Controllers = <<NamedController("b", mkController("", "r", <<>>)),
                          NamedController("a", mkController("p", "", ExampleBaseEnv))>>,
        !.Contexts = <<NamedContext("b", mkContext("", "r")), NamedContext("a", mkContext("p", ""))>>]}

\* overlays of merges: distinct names, at most one credential variant each
SequenceOverlays ==
    {[EmptyConfig EXCEPT
        !.Authorizations = <<NamedAuthorization("a", [Credential |-> mkClient("c1", "s1")]),
                             NamedAuthorization("b", [Credential |-> mkToken("t1", "")])>>],
     [EmptyConfig EXCEPT
        !.Servers = <<NamedServer("c", mkServer("q", "")), NamedServer("a", mkServer("", "s"))>>,
        !.Authorizations = <<NamedAuthorization("c", EmptyAuthorization)>>,
        !.Clusters = <<NamedCluster("c", mkCluster("q", ""))>>,
        !.Controllers = <<NamedController("a", mkController("", "s", <<[Name |-> "C", Value |-> "3"]>>))>>,
        !.Contexts = <<NamedContext("c", mkContext("q", "c"))>>]}

SequenceDocuments ==
    {<<Member("access_token", Str("t")), Member("client_id", Str("c"))>>,
     <<Member("client_id", Str("c")), Member("client_secret", Str("s"))>>,
     <<Member("foo", Str("x"))>>}

SequencePaths ==
    {<<"cluster", "a", "bin">>, <<"controller", "a", "env", "A">>,
     <<"controller", "b", "env", "A">>, <<"context", "a", "server">>,
     <<"context", "b", "server">>, <<"bogus", "a", "b">>}

InitSequence ==
    /\ cfg \in SequenceConfigs
    /\ pre = cfg
    /\ op = "init"
    /\ arg = <<>>
    /\ err = ""
    /\ pc = [at |-> "sequence", i |-> 0, pass |-> 0]

\* mergeConfig of an overlay into the data
SequenceMerge ==
    /\ pc.i < MaxChanges
    /\ \E o \in SequenceOverlays : \E c \in mergeConfig(cfg, o) :
          Applied("Merge", [overlay |-> o], [cfg |-> c, err |-> ""])

\* a document decoded into the fresh credential of authorization "a" of a
\* file, and the file merged into the data when the decoding succeeds
SequenceUnmarshal ==
    /\ pc.i < MaxChanges
    /\ \E d \in SequenceDocuments :
          LET r == UnmarshalJSON(EmptyCredential, d)
              o == [EmptyConfig EXCEPT
                      !.Authorizations = <<NamedAuthorization("a", [Credential |-> r.c])>>]
          IN  \E c \in (IF r.err = "" THEN mergeConfig(cfg, o) ELSE {cfg}) :
                  Applied("UnmarshalJSON", [data |-> d, c |-> r.c], [cfg |-> c, err |-> r.err])

SequenceSaveServer ==
    /\ pc.i < MaxChanges
    /\ \E name \in ChangeNames, env \in {environmentProduction, "bogus"} :
          \E r \in SaveServer(cfg, name, mkServer("q", ""), env) :
              Applied("SaveServer", [name |-> name, srv |-> mkServer("q", ""), env |-> env], r)

SequenceSaveToken ==
    /\ pc.i < MaxChanges
    /\ \E name \in ChangeNames, t \in Tokens :
          Applied("SaveToken", [name |-> name, t |-> t], SaveToken(cfg, name, t))

SequenceSaveClientRegistration ==
    /\ pc.i < MaxChanges
    /\ \E name \in ChangeNames, info \in Registrations :
          Applied("SaveClientRegistration", [name |-> name, info |-> info],
                  SaveClientRegistration(cfg, name, info))

SequenceApplyCurrentContext ==
    /\ pc.i < MaxChanges
    /\ \E contextName \in ChangeNames, r \in {<<"", "", "">>, <<"s", "z", "c">>} :
          Applied("ApplyCurrentContext",
                  [contextName |-> contextName, serverName |-> r[1],
                   authorizationName |-> r[2], clusterName |-> r[3]],
                  ApplyCurrentContext(cfg, contextName, r[1], r[2], r[3]))

SequenceSetExecutionEnvironment ==
    /\ pc.i < MaxChanges
    /\ \E env \in {"stage", "bogus"} :
          Applied("SetExecutionEnvironment", [env |-> env], SetExecutionEnvironment(cfg, env))

SequenceSetProperty ==
    /\ pc.i < MaxChanges
    /\ \E path \in SequencePaths, value \in {"", "a"} :
          \E r \in SetProperty(cfg, path, value) :
              Applied("SetProperty", [name |-> path, value |-> value], r)

NextSequence ==
    \/ SequenceMerge
    \/ SequenceUnmarshal
    \/ SequenceSaveServer
    \/ SequenceSaveToken
    \/ SequenceSaveClientRegistration
    \/ SequenceApplyCurrentContext
    \/ SequenceSetExecutionEnvironment
    \/ SequenceSetProperty

SpecSequence == InitSequence /\ [][NextSequence]_vars

(***************************************************************************)
(* Properties of sequences                                                 *)
(***************************************************************************)
OneVariant(c) == c.TokenCredential = <<>> \/ c.ClientCredential = <<>>

CredentialOf(data, name) ==
    data.Authorizations[FirstIndex(data.Authorizations, name)].Authorization.Credential

\* C25: after any sequence of merges, SaveToken, SaveServer and decodes into
\* fresh credentials (and of the other changes), every authorization and every
\* decoded credential has at most one variant populated; after SaveToken the
\* named authorization has the token variant only, and a merge that installs
\* one variant from its overlay leaves the authorization without the other
C25_OneVariant ==
    /\ \A i \in DOMAIN cfg.Authorizations :
           OneVariant(cfg.Authorizations[i].Authorization.Credential)
    /\ op = "UnmarshalJSON" => OneVariant(arg.c)
    /\ op = "SaveToken" =>
           /\ CredentialOf(cfg, arg.name).TokenCredential # <<>>
           /\ CredentialOf(cfg, arg.name).ClientCredential = <<>>
    /\ op = "Merge" =>
           \A i \in DOMAIN arg.overlay.Authorizations :
               LET o == arg.overlay.Authorizations[i]
                   c == CredentialOf(cfg, o.Name)
               IN  /\ hasToken(o.Authorization.Credential) =>
                          c.TokenCredential # <<>> /\ c.ClientCredential = <<>>
                   /\ hasClient(o.Authorization.Credential) =>
                          c.ClientCredential # <<>> /\ c.TokenCredential = <<>>

C25_Witness ==
    /\ op = "Merge" /\ pc.i = MaxChanges
    /\ \E n \in NamesOf(pre.Authorizations) \cap NamesOf(arg.overlay.Authorizations) :
          /\ CredentialOf(pre, n).TokenCredential # <<>>
          /\ hasClient(CredentialOf(arg.overlay, n))
          /\ CredentialOf(cfg, n).ClientCredential # <<>>
          /\ CredentialOf(cfg, n).TokenCredential = <<>>

CollectionsOf(data) ==
    <<data.Servers, data.Authorizations, data.Clusters, data.Controllers, data.Contexts>>

\* C29: after any sequence of changes, failed ones included, each of the five
\* collections has pairwise distinct names, and the last change has kept
\* every entry at its place and added at most one entry to each collection
C29_DistinctNames ==
    /\ \A k \in 1..5 : DistinctNames(CollectionsOf(cfg)[k])
    /\ op \in Changes =>
           \A k \in 1..5 :
               LET l1 == CollectionsOf(pre)[k]
                   l2 == CollectionsOf(cfg)[k]
               IN  /\ Len(l1) <= Len(l2) /\ Len(l2) <= Len(l1) + 1
                   /\ \A i \in DOMAIN l1 : l2[i].Name = l1[i].Name

C29_Witness ==
    /\ op \in Changes /\ pc.i = MaxChanges /\ err # ""
    /\ Len(cfg.Servers) = Len(pre.Servers) + 1
    /\ Len(pre.Servers) > 0

(***************************************************************************)
(* First-match semantics                                                   *)
(***************************************************************************)
Find(fld, l, n) ==
    CASE fld = "Server" -> findServer(l, n)
      [] fld = "Authorization" -> findAuthorization(l, n)
      [] fld = "Cluster" -> findCluster(l, n)
      [] fld = "Controller" -> findController(l, n)
      [] fld = "Context" -> findContext(l, n)

\* the entries of l that are the first of their name, in the order of l
RECURSIVE FirstEntries(_, _)
FirstEntries(l, i) ==
    IF i > Len(l) THEN <<>>
    ELSE (IF FirstIndex(l, l[i].Name) = i THEN <<l[i]>> ELSE <<>>) \o FirstEntries(l, i + 1)

FirstOnly(c) ==
    [c EXCEPT !.Servers = FirstEntries(@, 1), !.Authorizations = FirstEntries(@, 1),
              !.Clusters = FirstEntries(@, 1), !.Controllers = FirstEntries(@, 1),
              !.Contexts = FirstEntries(@, 1)]

\* C28: a find operation returns the first entry with the name; of several
\* base entries with one name a merge modifies only the first; and of several
\* overlay entries with one name the first is the one merged or appended, that
\* is, the merge is a merge of the overlay's first entries of each name
C28_FirstMatch ==
    Merged =>
        /\ \A k \in Collections : \A n \in NamesOf(pre[k[1]]) :
               LET i == Find(k[2], pre[k[1]], n)
               IN  /\ i \in DOMAIN pre[k[1]] /\ pre[k[1]][i].Name = n
                   /\ \A j \in 1..(i - 1) : pre[k[1]][j].Name # n
        /\ \A k \in Collections : \A i \in DOMAIN pre[k[1]] :
               Find(k[2], pre[k[1]], pre[k[1]][i].Name) # i
                   => i \in DOMAIN cfg[k[1]] /\ cfg[k[1]][i] = pre[k[1]][i]
        /\ cfg \in mergeConfig(pre, FirstOnly(arg))

\* C27: after any sequence of merges and SetProperty changes of a controller
\* env variable, ones with an empty value included, the env of every
\* controller has pairwise distinct variable names
C27_EnvNamesUnique ==
    \A i \in DOMAIN cfg.Controllers : DistinctNames(cfg.Controllers[i].Controller.Env)

(***************************************************************************)
(* The references after a pass of the defaults                             *)
(***************************************************************************)
\* the reference f of entry i of the list l was empty before the
\* pass: it was empty in pre, or the pass has added the entry
WasEmpty(l, fld, i, f) == i \notin DOMAIN pre[l] \/ pre[l][i][fld][f] = ""

=============================================================================
